---------------------------- MODULE Spec2Model ----------------------------
(***************************************************************************)
(* FlareSense dashboard (chat-ui): the page-switch shell, the Telegram     *)
(* panel, the monitoring dashboard and the request forms, as state         *)
(* machines.  Component state is React state (one instance per mount),     *)
(* localStorage is the browser's, and every pending timer or HTTP request  *)
(* is a record holding the values its callback closed over.                *)
(***************************************************************************)
EXTENDS Integers, Sequences, FiniteSets, TLC

VARIABLES
  \* App shell (chat-ui/src/App.js)
  showDashboard, currentPage, lsShell, lastShellAction, lastPage,
  \* DashboardLayout (mounted while showDashboard)
  isMobile, open, anchorEl, notificationAnchorEl,
  \* TelegramBot panel (one mounted instance) and the browser's localStorage
  tgMounted, chatId, protocol, address, isConnected, isSubscribed, loading,
  statusMessage, monitoredProtocols, monitoredAddresses, lsTg,
  \* its pending setTimeout callbacks and axios requests, with their closures,
  \* and those left pending by instances that were unmounted
  tgTimers, tgRequests, tgOrphans,
  \* MonitoringDashboard: its state, its setInterval timers, its requests in
  \* flight, its status-clearing timeouts and the time since its last alert
  \* request left
  monMounted, alerts, monLoading, monError, filter, addressInput,
  protocolInput, registrationStatus,
  intervals, alertRequests, regRequests, regTimers, lastFetchAge,
  \* the pending 500 ms timeouts of its Refresh buttons
  refreshTimers,
  \* the request forms, each a record of its component's state: ContractAnalysis,
  \* ContractMonitoring, RiskAssessment and Chat; their requests (and the
  \* sample-analysis delay) in flight, those of unmounted instances; the build's process.env.NODE_ENV
  ca, cm, ra, chat, formRequests, orphans, nodeEnv,
  \* one alert card of the monitoring screen's list: its description prop and
  \* its expanded state
  card,
  \* the shell handler that ran last
  ev

shellVars == <<showDashboard, currentPage, lsShell, lastShellAction, lastPage>>

layoutVars == <<isMobile, open, anchorEl, notificationAnchorEl>>

tgState == <<chatId, protocol, address, isConnected, isSubscribed, loading,
             statusMessage, monitoredProtocols, monitoredAddresses>>

tgVars == <<tgMounted, tgState, lsTg, tgTimers, tgRequests, tgOrphans>>

monState == <<alerts, monLoading, monError, filter, addressInput,
              protocolInput, registrationStatus>>

monVars == <<monMounted, monState, intervals, alertRequests, regRequests,
             regTimers, lastFetchAge, refreshTimers>>

formVars == <<ca, cm, ra, chat, formRequests, orphans, nodeEnv>>

vars == <<shellVars, layoutVars, ev, tgVars, monVars, formVars, card>>

\* what the handlers of one component leave alone: the other components
notShell == <<tgVars, monVars, formVars, card>>

notTg == <<shellVars, layoutVars, ev, monVars, formVars, card>>

notMon == <<shellVars, layoutVars, ev, tgVars, formVars, card>>

notForms == <<shellVars, layoutVars, ev, tgVars, monVars, nodeEnv, card>>

\* App renders one page at a time: a screen mounts when no other is mounted
NoScreen ==
  ~tgMounted /\ ~monMounted /\ ~ca.mounted /\ ~cm.mounted /\ ~ra.mounted /\ ~chat.mounted

\* ------------------------------------------------------------------ text
\* Text is a sequence of one-character strings.
MaxLen == 2

Chars == {" ", "a"}

RECURSIVE SeqsUpTo(_, _)
SeqsUpTo(S, n) ==
  IF n = 0 THEN {<<>>}
  ELSE LET shorter == SeqsUpTo(S, n - 1)
       IN  shorter \cup {Append(s, c) : s \in shorter, c \in S}

InputStrings == SeqsUpTo(Chars, MaxLen)

IsSpace(c) == c = " "

RECURSIVE trimStart(_)
trimStart(s) ==
  IF s # <<>> /\ IsSpace(Head(s)) THEN trimStart(Tail(s)) ELSE s

RECURSIVE trimEnd(_)
trimEnd(s) ==
  IF s # <<>> /\ IsSpace(s[Len(s)]) THEN trimEnd(SubSeq(s, 1, Len(s) - 1)) ELSE s

trim_startOnly(s) == trimStart(s)

\* String.prototype.trim
trim(s) == trimEnd(trimStart(s))

\* ----------------------------------------------------------- App shell
NoItem == {}

getItem(store, key) == store[key]

truthy(item) == item # NoItem /\ item # {""}

valueOf(item) == CHOOSE v \in item : TRUE

menuItems ==
  <<"dashboard", "contract-analysis", "activity-monitoring",
    "blockchain-monitoring", "risk-assessment", "telegram-bot", "chat">>

MenuValues == {menuItems[i] : i \in DOMAIN menuItems}

renderCurrentPage_noDefault(page) ==
  CASE page = "dashboard"             -> "DashboardHome"
    [] page = "contract-analysis"     -> "ContractAnalysis"
    [] page = "activity-monitoring"   -> "ContractMonitoring"
    [] page = "blockchain-monitoring" -> "MonitoringDashboard"
    [] page = "risk-assessment"       -> "RiskAssessment"
    [] page = "chat"                  -> "Chat"
    [] OTHER                          -> "nothing"

\* the switch of renderCurrentPage: the component rendered for a page value
renderCurrentPage(page) ==
  CASE page = "dashboard"             -> "DashboardHome"
    [] page = "contract-analysis"     -> "ContractAnalysis"
    [] page = "activity-monitoring"   -> "ContractMonitoring"
    [] page = "blockchain-monitoring" -> "MonitoringDashboard"
    [] page = "risk-assessment"       -> "RiskAssessment"
    [] page = "chat"                  -> "Chat"
    [] OTHER                          -> "DashboardHome"

\* what App renders below the theme provider
Rendered ==
  IF showDashboard THEN renderCurrentPage(currentPage) ELSE "LandingPage"

\* DashboardLayout's useState defaults; an anchor is modelled by whether it is set
LayoutMounted ==
  /\ open' = ~isMobile'
  /\ anchorEl' = FALSE
  /\ notificationAnchorEl' = FALSE

\* a Menu that is open is modal: nothing behind it receives a click
NoMenuOpen == ~anchorEl /\ ~notificationAnchorEl

handleDrawerToggle ==
  /\ showDashboard /\ NoMenuOpen
  /\ open' = ~open
  /\ ev' = "DashboardLayout.handleDrawerToggle"
  /\ UNCHANGED notShell
  /\ UNCHANGED <<shellVars, isMobile, anchorEl, notificationAnchorEl>>

handleProfileMenuOpen ==
  /\ showDashboard /\ NoMenuOpen
  /\ anchorEl' = TRUE
  /\ ev' = "DashboardLayout.handleProfileMenuOpen"
  /\ UNCHANGED notShell
  /\ UNCHANGED <<shellVars, isMobile, open, notificationAnchorEl>>

handleProfileMenuClose ==
  /\ showDashboard /\ anchorEl
  /\ anchorEl' = FALSE
  /\ ev' = "DashboardLayout.handleProfileMenuClose"
  /\ UNCHANGED notShell
  /\ UNCHANGED <<shellVars, isMobile, open, notificationAnchorEl>>

handleNotificationMenuOpen ==
  /\ showDashboard /\ NoMenuOpen
  /\ notificationAnchorEl' = TRUE
  /\ ev' = "DashboardLayout.handleNotificationMenuOpen"
  /\ UNCHANGED notShell
  /\ UNCHANGED <<shellVars, isMobile, open, anchorEl>>

handleNotificationMenuClose ==
  /\ showDashboard /\ notificationAnchorEl
  /\ notificationAnchorEl' = FALSE
  /\ ev' = "DashboardLayout.handleNotificationMenuClose"
  /\ UNCHANGED notShell
  /\ UNCHANGED <<shellVars, isMobile, open, anchorEl>>

ShellInit ==
  /\ isMobile = FALSE
  /\ open = ~isMobile
  /\ anchorEl = FALSE
  /\ notificationAnchorEl = FALSE
  /\ showDashboard = FALSE
  /\ currentPage = "dashboard"
  /\ lsShell = [k \in {"showDashboard", "currentPage"} |-> NoItem]
  /\ lastShellAction = "none"
  /\ lastPage = "none"

\* strings found under currentPage in localStorage that no handler of this
\* build wrote: empty, a page this build does not know, a page in another case
StoredPages == {"", "settings", "Chat", "chat"}

\* the browser before a page load, with whatever localStorage holds
ShellInitStored ==
  /\ isMobile = FALSE
  /\ open = ~isMobile
  /\ anchorEl = FALSE
  /\ notificationAnchorEl = FALSE
  /\ showDashboard = FALSE
  /\ currentPage = "dashboard"
  /\ lsShell \in {[k \in {"showDashboard", "currentPage"} |->
                    IF k = "showDashboard" THEN a ELSE b] :
                  a \in {NoItem, {"true"}},
                  b \in {NoItem} \cup {{page} : page \in StoredPages}}
  /\ lastShellAction = "none"
  /\ lastPage = "none"

\* a page load: the viewport decides isMobile, then useState defaults and the
\* mount effect that reads localStorage
AppReload ==
  /\ showDashboard' = (getItem(lsShell, "showDashboard") = {"true"})
  /\ currentPage' = IF truthy(getItem(lsShell, "currentPage"))
                      THEN valueOf(getItem(lsShell, "currentPage"))
                      ELSE "dashboard"
  /\ isMobile' \in BOOLEAN
  /\ LayoutMounted
  /\ ev' = "App.reload"
  /\ UNCHANGED notShell
  /\ UNCHANGED <<lsShell, lastShellAction, lastPage>>

setShowDashboardItem(store) == [store EXCEPT !["showDashboard"] = {"true"}]

handleGetStarted ==
  /\ ~showDashboard
  /\ showDashboard' = TRUE
  /\ lsShell' = setShowDashboardItem(lsShell)
  /\ lastShellAction' = "getStarted"
  /\ UNCHANGED isMobile
  /\ LayoutMounted
  /\ ev' = "App.handleGetStarted"
  /\ UNCHANGED notShell
  /\ UNCHANGED <<currentPage, lastPage>>

setCurrentPageItem(store, page) == [store EXCEPT !["currentPage"] = {page}]

\* the sidebar entries are in the drawer: permanent on a wide viewport
handlePageChange(page) ==
  /\ showDashboard /\ NoMenuOpen
  /\ isMobile => open
  /\ currentPage' = page
  /\ lsShell' = setCurrentPageItem(lsShell, page)
  /\ lastPage' = page
  /\ ev' = "App.handlePageChange"
  /\ UNCHANGED notShell
  /\ UNCHANGED <<showDashboard, lastShellAction, layoutVars>>

removeShowDashboardItem_kept(store) == store

removeShowDashboardItem(store) == [store EXCEPT !["showDashboard"] = NoItem]

backToLanding(who) ==
  /\ showDashboard' = FALSE
  /\ lsShell' = removeShowDashboardItem(lsShell)
  /\ lastShellAction' = "back"
  /\ UNCHANGED isMobile
  /\ LayoutMounted
  /\ ev' = who
  /\ UNCHANGED notShell
  /\ UNCHANGED <<currentPage, lastPage>>

\* the Back to Home button of the app bar
handleBackToLanding ==
  /\ showDashboard /\ NoMenuOpen
  /\ backToLanding("App.handleBackToLanding")

\* the Logout entry of the profile menu: closes the menu, then onBackToLanding
handleLogout ==
  /\ showDashboard /\ anchorEl
  /\ backToLanding("DashboardLayout.handleLogout")

\* ------------------------------------------------------ Telegram panel
\* values typed into the chat id field: none, a number, digits then a letter
ChatIdStrings == {<<>>, <<"4", "2">>, <<"7", "x">>}

SAMPLE_PROTOCOLS == {"Uniswap", "Aave"}

SAMPLE_ADDRESSES == {"0x742d"}

DigitValue ==
  [c \in {"0", "1", "2", "3", "4", "5", "6", "7", "8", "9"} |->
     CASE c = "0" -> 0 [] c = "1" -> 1 [] c = "2" -> 2 [] c = "3" -> 3
       [] c = "4" -> 4 [] c = "5" -> 5 [] c = "6" -> 6 [] c = "7" -> 7
       [] c = "8" -> 8 [] c = "9" -> 9]

NaN == [nan |-> TRUE, n |-> 0]

RECURSIVE digitsValue(_, _)
digitsValue(s, acc) ==
  IF s # <<>> /\ Head(s) \in DOMAIN DigitValue
    THEN digitsValue(Tail(s), 10 * acc + DigitValue[Head(s)])
    ELSE acc

\* parseInt(s, 10): leading whitespace skipped, then the longest digit prefix
parseInt(s) ==
  LET t == trimStart(s)
  IN  IF t # <<>> /\ Head(t) \in DOMAIN DigitValue
        THEN [nan |-> FALSE, n |-> digitsValue(t, 0)]
        ELSE NaN

RECURSIVE jsonItems(_)
jsonItems(list) ==
  IF list = <<>> THEN <<>>
  ELSE IF Len(list) = 1 THEN <<"\"", Head(list), "\"">>
  ELSE <<"\"", Head(list), "\"", ",">> \o jsonItems(Tail(list))

\* JSON.stringify of an array of strings, as the sequence of its tokens
JSONstringify(list) == <<"[">> \o jsonItems(list) \o <<"]">>

RECURSIVE jsonParseItems(_, _)
jsonParseItems(text, acc) ==
  IF Len(text) >= 3 /\ text[1] = "\"" /\ text[3] = "\""
    THEN IF Len(text) = 3 THEN [ok |-> TRUE, value |-> Append(acc, text[2])]
         ELSE IF text[4] = "," THEN jsonParseItems(SubSeq(text, 5, Len(text)), Append(acc, text[2]))
         ELSE [ok |-> FALSE, value |-> <<>>]
    ELSE [ok |-> FALSE, value |-> <<>>]

\* JSON.parse of such a text: ok is FALSE where JSON.parse throws
JSONparse(text) ==
  IF Len(text) >= 2 /\ Head(text) = "[" /\ text[Len(text)] = "]"
    THEN IF Len(text) = 2 THEN [ok |-> TRUE, value |-> <<>>]
         ELSE jsonParseItems(SubSeq(text, 2, Len(text) - 1), <<>>)
    ELSE [ok |-> FALSE, value |-> <<>>]

includes(list, x) == \E i \in DOMAIN list : list[i] = x

filterOut(list, x) == SelectSeq(list, LAMBDA e : e # x)

NoStatus == [type |-> "none", message |-> ""]

\* a status message; the interpolated protocol or address is left out of the text
status(type, message, about) == [type |-> type, message |-> message]

TgKeys == {"telegram_chat_id", "telegram_is_connected", "telegram_is_subscribed",
           "telegram_monitored_protocols", "telegram_monitored_addresses"}

setItem(store, key, value) == [store EXCEPT ![key] = {value}]

removeItem_kept(store, key) == store

removeItem(store, key) == [store EXCEPT ![key] = NoItem]

restoredList(item) ==
  IF item # NoItem /\ JSONparse(valueOf(item)).ok THEN JSONparse(valueOf(item)).value ELSE <<>>

\* what the mount effect makes of localStorage: the restored component state
restoredChatId(store) ==
  IF store["telegram_chat_id"] \notin {NoItem, {<<>>}}
    THEN valueOf(store["telegram_chat_id"]) ELSE <<>>

restoredIsConnected(store) == store["telegram_is_connected"] = {"true"}

restoredIsSubscribed(store) == store["telegram_is_subscribed"] = {"true"}

restoredProtocols(store) == restoredList(store["telegram_monitored_protocols"])

restoredAddresses(store) == restoredList(store["telegram_monitored_addresses"])

TgDefaults ==
  /\ protocol' = ""
  /\ address' = ""
  /\ loading' = FALSE
  /\ statusMessage' = NoStatus

TgInit ==
  /\ tgMounted = FALSE
  /\ chatId = <<>>
  /\ protocol = ""
  /\ address = ""
  /\ isConnected = FALSE
  /\ isSubscribed = FALSE
  /\ loading = FALSE
  /\ statusMessage = NoStatus
  /\ monitoredProtocols = <<>>
  /\ monitoredAddresses = <<>>
  /\ lsTg = [k \in TgKeys |-> NoItem]
  /\ tgTimers = {}
  /\ tgRequests = {}
  /\ tgOrphans = [timers |-> {}, requests |-> {}]

\* mount of TelegramBot: useState defaults, then the effect that restores
TgMount ==
  /\ NoScreen
  /\ tgMounted' = TRUE
  /\ TgDefaults
  /\ chatId' = restoredChatId(lsTg)
  /\ isConnected' = restoredIsConnected(lsTg)
  /\ isSubscribed' = restoredIsSubscribed(lsTg)
  /\ monitoredProtocols' = restoredProtocols(lsTg)
  /\ monitoredAddresses' = restoredAddresses(lsTg)
  /\ UNCHANGED notTg
  /\ UNCHANGED tgOrphans
  /\ UNCHANGED <<lsTg, tgTimers, tgRequests>>

\* unmount, taken here only between operations: the component cancels neither
\* its timers nor its requests, so one left pending would still write localStorage
TgUnmount ==
  /\ tgMounted
  /\ tgTimers = {} /\ tgRequests = {}
  /\ tgMounted' = FALSE
  /\ TgDefaults
  /\ chatId' = <<>>
  /\ isConnected' = FALSE
  /\ isSubscribed' = FALSE
  /\ monitoredProtocols' = <<>>
  /\ monitoredAddresses' = <<>>
  /\ UNCHANGED notTg
  /\ UNCHANGED tgOrphans
  /\ UNCHANGED <<lsTg, tgTimers, tgRequests>>

\* the chat id field is rendered only while not connected
setChatId(value) ==
  /\ tgMounted /\ ~isConnected
  /\ value # chatId
  /\ chatId' = value
  /\ UNCHANGED notTg
  /\ UNCHANGED tgOrphans
  /\ UNCHANGED <<tgMounted, protocol, address, isConnected, isSubscribed, loading,
                 statusMessage, monitoredProtocols, monitoredAddresses, lsTg,
                 tgTimers, tgRequests>>

setProtocol(value) ==
  /\ tgMounted /\ isConnected
  /\ value # protocol
  /\ protocol' = value
  /\ UNCHANGED notTg
  /\ UNCHANGED tgOrphans
  /\ UNCHANGED <<tgMounted, chatId, address, isConnected, isSubscribed, loading,
                 statusMessage, monitoredProtocols, monitoredAddresses, lsTg,
                 tgTimers, tgRequests>>

setAddress(value) ==
  /\ tgMounted /\ isConnected
  /\ value # address
  /\ address' = value
  /\ UNCHANGED notTg
  /\ UNCHANGED tgOrphans
  /\ UNCHANGED <<tgMounted, chatId, protocol, isConnected, isSubscribed, loading,
                 statusMessage, monitoredProtocols, monitoredAddresses, lsTg,
                 tgTimers, tgRequests>>

\* the Alert's onClose
closeStatusMessage ==
  /\ tgMounted /\ statusMessage # NoStatus
  /\ statusMessage' = NoStatus
  /\ UNCHANGED notTg
  /\ UNCHANGED tgOrphans
  /\ UNCHANGED <<tgMounted, chatId, protocol, address, isConnected, isSubscribed,
                 loading, monitoredProtocols, monitoredAddresses, lsTg,
                 tgTimers, tgRequests>>

timer(op, id) == [op |-> op, chatId |-> id]

request_storedId(op, url, query, item, list) ==
  [op |-> op, url |-> url, query |-> query,
   body |-> [chat_id |-> parseInt(restoredChatId(lsTg))],
   item |-> item, list |-> list]

\* an axios.post of the panel: every body is { chat_id: parseInt(chatId, 10) }
request(op, url, query, item, list) ==
  [op |-> op, url |-> url, query |-> query, body |-> [chat_id |-> parseInt(chatId)],
   item |-> item, list |-> list]

\* Connect button: disabled={loading || !chatId}, rendered while not connected
handleConnect ==
  /\ tgMounted /\ ~isConnected /\ ~loading /\ chatId # <<>>
  /\ loading' = TRUE
  /\ tgTimers' = tgTimers \cup {timer("connect", chatId)}
  /\ UNCHANGED notTg
  /\ UNCHANGED tgOrphans
  /\ UNCHANGED <<tgMounted, chatId, protocol, address, isConnected, isSubscribed,
                 statusMessage, monitoredProtocols, monitoredAddresses, lsTg,
                 tgRequests>>

\* the setTimeout callback of handleConnect, 1500 ms later
connectTimeout(t) ==
  /\ t \in tgTimers /\ t.op = "connect"
  /\ isConnected' = TRUE
  /\ statusMessage' = status("success", "Successfully connected to Telegram!", "")
  /\ loading' = FALSE
  /\ lsTg' = setItem(setItem(lsTg, "telegram_chat_id", t.chatId),
                     "telegram_is_connected", "true")
  /\ tgTimers' = tgTimers \ {t}
  /\ UNCHANGED notTg
  /\ UNCHANGED tgOrphans
  /\ UNCHANGED <<tgMounted, chatId, protocol, address, isSubscribed,
                 monitoredProtocols, monitoredAddresses, tgRequests>>

\* Disconnect button: disabled={loading}, rendered while connected
handleDisconnect ==
  /\ tgMounted /\ isConnected /\ ~loading
  /\ loading' = TRUE
  /\ tgTimers' = tgTimers \cup {timer("disconnect", <<>>)}
  /\ UNCHANGED notTg
  /\ UNCHANGED tgOrphans
  /\ UNCHANGED <<tgMounted, chatId, protocol, address, isConnected, isSubscribed,
                 statusMessage, monitoredProtocols, monitoredAddresses, lsTg,
                 tgRequests>>

\* the setTimeout callback of handleDisconnect, 1000 ms later
disconnectTimeout(t) ==
  /\ t \in tgTimers /\ t.op = "disconnect"
  /\ isConnected' = FALSE
  /\ isSubscribed' = FALSE
  /\ statusMessage' = status("info", "Disconnected from Telegram", "")
  /\ loading' = FALSE
  /\ lsTg' = removeItem(removeItem(lsTg, "telegram_is_connected"),
                        "telegram_is_subscribed")
  /\ tgTimers' = tgTimers \ {t}
  /\ UNCHANGED notTg
  /\ UNCHANGED tgOrphans
  /\ UNCHANGED <<tgMounted, chatId, protocol, address,
                 monitoredProtocols, monitoredAddresses, tgRequests>>

Outcomes == {"ok", "fail"}

doneMessage_asSuccess(outcome, fallback) == fallback

\* the status text: the try branch's (the server's message, or this fallback
\* for it) or the catch branch's, which ends in "(Demo mode)"
doneMessage(outcome, fallback) ==
  CASE outcome = "ok"   -> fallback
    [] outcome = "fail" -> "(Demo mode)"

\* Subscribe button: rendered while not subscribed, disabled={loading || !isConnected};
\* handleSubscribe itself returns with an error status when not connected
handleSubscribe ==
  /\ tgMounted /\ ~isSubscribed /\ ~loading /\ isConnected
  /\ IF ~isConnected
       THEN /\ statusMessage' = status("error", "Please connect to Telegram first", "")
            /\ UNCHANGED <<loading, tgRequests>>
       ELSE /\ loading' = TRUE
            /\ tgRequests' = tgRequests \cup
                 {request("subscribe", "/api/routes/monitoring/telegram/subscribe", "", "", <<>>)}
            /\ UNCHANGED statusMessage
  /\ UNCHANGED notTg
  /\ UNCHANGED tgOrphans
  /\ UNCHANGED <<tgMounted, chatId, protocol, address, isConnected, isSubscribed,
                 monitoredProtocols, monitoredAddresses, lsTg, tgTimers>>

\* the rest of handleSubscribe once the POST resolved or rejected: try, catch, finally
subscribeDone(r, outcome) ==
  /\ r \in tgRequests /\ r.op = "subscribe"
  /\ isSubscribed' = TRUE
  /\ statusMessage' = status("success", doneMessage(outcome, "Successfully subscribed to alerts!"), "")
  /\ loading' = FALSE
  /\ lsTg' = setItem(lsTg, "telegram_is_subscribed", "true")
  /\ tgRequests' = tgRequests \ {r}
  /\ UNCHANGED notTg
  /\ UNCHANGED tgOrphans
  /\ UNCHANGED <<tgMounted, chatId, protocol, address, isConnected,
                 monitoredProtocols, monitoredAddresses, tgTimers>>

handleUnsubscribe ==
  /\ tgMounted /\ isSubscribed /\ ~loading /\ isConnected
  /\ IF ~isConnected
       THEN /\ statusMessage' = status("error", "Please connect to Telegram first", "")
            /\ UNCHANGED <<loading, tgRequests>>
       ELSE /\ loading' = TRUE
            /\ tgRequests' = tgRequests \cup
                 {request("unsubscribe", "/api/routes/monitoring/telegram/unsubscribe", "", "", <<>>)}
            /\ UNCHANGED statusMessage
  /\ UNCHANGED notTg
  /\ UNCHANGED tgOrphans
  /\ UNCHANGED <<tgMounted, chatId, protocol, address, isConnected, isSubscribed,
                 monitoredProtocols, monitoredAddresses, lsTg, tgTimers>>

unsubscribeDone(r, outcome) ==
  /\ r \in tgRequests /\ r.op = "unsubscribe"
  /\ isSubscribed' = FALSE
  /\ statusMessage' = status("info", doneMessage(outcome, "Unsubscribed from alerts"), "")
  /\ loading' = FALSE
  /\ lsTg' = removeItem(lsTg, "telegram_is_subscribed")
  /\ tgRequests' = tgRequests \ {r}
  /\ UNCHANGED notTg
  /\ UNCHANGED tgOrphans
  /\ UNCHANGED <<tgMounted, chatId, protocol, address, isConnected,
                 monitoredProtocols, monitoredAddresses, tgTimers>>

\* [...list, item] unless list.includes(item): the list as the handler's closure saw it
withItem(list, item) == IF includes(list, item) THEN list ELSE Append(list, item)

\* Monitor button of the protocol field: disabled={loading || !isConnected || !protocol}
handleMonitorProtocol ==
  /\ tgMounted /\ ~loading /\ isConnected /\ protocol # ""
  /\ IF ~isConnected \/ protocol = ""
       THEN /\ statusMessage' = status("error", "Please enter a protocol name", "")
            /\ UNCHANGED <<loading, tgRequests>>
       ELSE /\ loading' = TRUE
            /\ tgRequests' = tgRequests \cup
                 {request("monitorProtocol", "/api/routes/monitoring/telegram/monitor/protocol",
                          protocol, protocol, monitoredProtocols)}
            /\ UNCHANGED statusMessage
  /\ UNCHANGED notTg
  /\ UNCHANGED tgOrphans
  /\ UNCHANGED <<tgMounted, chatId, protocol, address, isConnected, isSubscribed,
                 monitoredProtocols, monitoredAddresses, lsTg, tgTimers>>

monitorProtocolDone_noCheck(r, outcome) ==
  /\ r \in tgRequests /\ r.op = "monitorProtocol"
  /\ monitoredProtocols' = Append(r.list, r.item)
  /\ statusMessage' = status("success", doneMessage(outcome, "Now monitoring protocol"), r.item)
  /\ protocol' = ""
  /\ loading' = FALSE
  /\ lsTg' = setItem(lsTg, "telegram_monitored_protocols", JSONstringify(Append(r.list, r.item)))
  /\ tgRequests' = tgRequests \ {r}
  /\ UNCHANGED notTg
  /\ UNCHANGED tgOrphans
  /\ UNCHANGED <<tgMounted, chatId, address, isConnected, isSubscribed,
                 monitoredAddresses, tgTimers>>

\* the rest of handleMonitorProtocol once the POST resolved or rejected
monitorProtocolDone(r, outcome) ==
  /\ r \in tgRequests /\ r.op = "monitorProtocol"
  /\ monitoredProtocols' =
       IF includes(r.list, r.item) THEN monitoredProtocols ELSE withItem(r.list, r.item)
  /\ statusMessage' = status("success", doneMessage(outcome, "Now monitoring protocol"), r.item)
  /\ protocol' = ""
  /\ loading' = FALSE
  /\ lsTg' = IF includes(r.list, r.item) THEN lsTg
             ELSE setItem(lsTg, "telegram_monitored_protocols", JSONstringify(withItem(r.list, r.item)))
  /\ tgRequests' = tgRequests \ {r}
  /\ UNCHANGED notTg
  /\ UNCHANGED tgOrphans
  /\ UNCHANGED <<tgMounted, chatId, address, isConnected, isSubscribed,
                 monitoredAddresses, tgTimers>>

handleMonitorAddress ==
  /\ tgMounted /\ ~loading /\ isConnected /\ address # ""
  /\ IF ~isConnected \/ address = ""
       THEN /\ statusMessage' = status("error", "Please enter a blockchain address", "")
            /\ UNCHANGED <<loading, tgRequests>>
       ELSE /\ loading' = TRUE
            /\ tgRequests' = tgRequests \cup
                 {request("monitorAddress", "/api/routes/monitoring/telegram/monitor/address",
                          address, address, monitoredAddresses)}
            /\ UNCHANGED statusMessage
  /\ UNCHANGED notTg
  /\ UNCHANGED tgOrphans
  /\ UNCHANGED <<tgMounted, chatId, protocol, address, isConnected, isSubscribed,
                 monitoredProtocols, monitoredAddresses, lsTg, tgTimers>>

monitorAddressDone(r, outcome) ==
  /\ r \in tgRequests /\ r.op = "monitorAddress"
  /\ monitoredAddresses' =
       IF includes(r.list, r.item) THEN monitoredAddresses ELSE withItem(r.list, r.item)
  /\ statusMessage' = status("success", doneMessage(outcome, "Now monitoring address"), r.item)
  /\ address' = ""
  /\ loading' = FALSE
  /\ lsTg' = IF includes(r.list, r.item) THEN lsTg
             ELSE setItem(lsTg, "telegram_monitored_addresses", JSONstringify(withItem(r.list, r.item)))
  /\ tgRequests' = tgRequests \ {r}
  /\ UNCHANGED notTg
  /\ UNCHANGED tgOrphans
  /\ UNCHANGED <<tgMounted, chatId, protocol, isConnected, isSubscribed,
                 monitoredProtocols, tgTimers>>

\* a chip's onDelete, for a protocol shown in the list
handleRemoveProtocol(p) ==
  /\ tgMounted /\ includes(monitoredProtocols, p)
  /\ monitoredProtocols' = filterOut(monitoredProtocols, p)
  /\ lsTg' = setItem(lsTg, "telegram_monitored_protocols",
                     JSONstringify(filterOut(monitoredProtocols, p)))
  /\ statusMessage' = status("info", "Stopped monitoring protocol", p)
  /\ UNCHANGED notTg
  /\ UNCHANGED tgOrphans
  /\ UNCHANGED <<tgMounted, chatId, protocol, address, isConnected, isSubscribed, loading,
                 monitoredAddresses, tgTimers, tgRequests>>

handleRemoveAddress(a) ==
  /\ tgMounted /\ includes(monitoredAddresses, a)
  /\ monitoredAddresses' = filterOut(monitoredAddresses, a)
  /\ lsTg' = setItem(lsTg, "telegram_monitored_addresses",
                     JSONstringify(filterOut(monitoredAddresses, a)))
  /\ statusMessage' = status("info", "Stopped monitoring address", a)
  /\ UNCHANGED notTg
  /\ UNCHANGED tgOrphans
  /\ UNCHANGED <<tgMounted, chatId, protocol, address, isConnected, isSubscribed, loading,
                 monitoredProtocols, tgTimers, tgRequests>>

\* the pending callbacks and requests of unmounted instances
MaxTgOrphans == 1

\* unmount while a timeout or a request is pending: the component cancels
\* neither, so its continuation still runs later
TgLeave ==
  /\ tgMounted
  /\ tgTimers # {} \/ tgRequests # {}
  /\ Cardinality(tgOrphans.timers \cup tgTimers)
       + Cardinality(tgOrphans.requests \cup tgRequests) <= MaxTgOrphans
  /\ tgMounted' = FALSE
  /\ TgDefaults
  /\ chatId' = <<>>
  /\ isConnected' = FALSE
  /\ isSubscribed' = FALSE
  /\ monitoredProtocols' = <<>>
  /\ monitoredAddresses' = <<>>
  /\ tgOrphans' = [timers |-> tgOrphans.timers \cup tgTimers,
                   requests |-> tgOrphans.requests \cup tgRequests]
  /\ tgTimers' = {}
  /\ tgRequests' = {}
  /\ UNCHANGED lsTg
  /\ UNCHANGED notTg

\* the setTimeout callback of an unmounted instance: React ignores its
\* setters, its localStorage calls run
orphanTimeout(t) ==
  /\ t \in tgOrphans.timers
  /\ tgOrphans' = [tgOrphans EXCEPT !.timers = @ \ {t}]
  /\ lsTg' = IF t.op = "connect"
             THEN setItem(setItem(lsTg, "telegram_chat_id", t.chatId),
                          "telegram_is_connected", "true")
             ELSE removeItem(removeItem(lsTg, "telegram_is_connected"),
                             "telegram_is_subscribed")
  /\ UNCHANGED <<tgMounted, tgState, tgTimers, tgRequests>>
  /\ UNCHANGED notTg

\* the rest of an async handler of an unmounted instance, in its try or its
\* catch: the same localStorage call in both
orphanRequestDone(r) ==
  /\ r \in tgOrphans.requests
  /\ tgOrphans' = [tgOrphans EXCEPT !.requests = @ \ {r}]
  /\ lsTg' =
       CASE r.op = "subscribe" -> setItem(lsTg, "telegram_is_subscribed", "true")
         [] r.op = "unsubscribe" -> removeItem(lsTg, "telegram_is_subscribed")
         [] r.op = "monitorProtocol" ->
              IF includes(r.list, r.item) THEN lsTg
              ELSE setItem(lsTg, "telegram_monitored_protocols",
                           JSONstringify(withItem(r.list, r.item)))
         [] OTHER ->
              IF includes(r.list, r.item) THEN lsTg
              ELSE setItem(lsTg, "telegram_monitored_addresses",
                           JSONstringify(withItem(r.list, r.item)))
  /\ UNCHANGED <<tgMounted, tgState, tgTimers, tgRequests>>
  /\ UNCHANGED notTg

\* ------------------------------------------------- monitoring dashboard
PollMs == 30000

StatusClearMs == 3000

AlertLimit == 50

\* the longest step of the clock, and the caps on alert requests in flight, on
\* registrations in flight and on registration alerts in the list
TickMs == 15000

MaxInFlight == 2

MaxPosts == 1

MaxRegistered == 1

\* Refresh clicks whose timeout is pending
MaxRefresh == 1

FilterTypes == {"", "whale_transaction", "unusual_activity",
                "vulnerable_contract", "security_news", "protocol_compromise"}

FilterSeverities == {"", "high", "medium", "low"}

\* an alert, by the fields the screen filters and keys on
alert(id, type, severity) == [id |-> id, type |-> type, severity |-> severity]

mockAlerts ==
  << alert("mock-1", "whale_transaction", "medium"),
     alert("mock-2", "security_news", "high"),
     alert("mock-3", "unusual_activity", "low") >>

\* response.data of the alert endpoint: whatever the backend sends
ServerData == {<<>>, <<alert("srv-1", "protocol_compromise", "high")>>}

filteredMockAlerts_typeOnly(f) ==
  IF f.type # ""
  THEN SelectSeq(mockAlerts, LAMBDA a : a.type = f.type)
  ELSE mockAlerts

\* the mock alerts that pass the filter the failed request was made with
filteredMockAlerts(f) ==
  LET byType == IF f.type # ""
                THEN SelectSeq(mockAlerts, LAMBDA a : a.type = f.type)
                ELSE mockAlerts
  IN  IF f.severity # ""
      THEN SelectSeq(byType, LAMBDA a : a.severity = f.severity)
      ELSE byType

params_always(f) ==
  [k \in {"limit", "alert_type", "severity"} |->
     CASE k = "limit" -> AlertLimit
       [] k = "alert_type" -> f.type
       [] OTHER -> f.severity]

\* params: { limit: 50, ...(filter.type && {alert_type}), ...(filter.severity && {severity}) }
params(f) ==
  [k \in {"limit"} \cup (IF f.type # "" THEN {"alert_type"} ELSE {})
                   \cup (IF f.severity # "" THEN {"severity"} ELSE {}) |->
     CASE k = "limit" -> AlertLimit
       [] k = "alert_type" -> f.type
       [] OTHER -> f.severity]

NoRegistrationStatus == [message |-> "", type |-> ""]

MonDefaults ==
  /\ alerts' = <<>>
  /\ monLoading' = TRUE
  /\ monError' = "none"
  /\ filter' = [type |-> "", severity |-> ""]
  /\ addressInput' = <<>>
  /\ protocolInput' = <<>>
  /\ registrationStatus' = NoRegistrationStatus

MonInit ==
  /\ monMounted = FALSE
  /\ alerts = <<>>
  /\ monLoading = TRUE
  /\ monError = "none"
  /\ filter = [type |-> "", severity |-> ""]
  /\ addressInput = <<>>
  /\ protocolInput = <<>>
  /\ registrationStatus = NoRegistrationStatus
  /\ intervals = {}
  /\ alertRequests = <<>>
  /\ regRequests = <<>>
  /\ regTimers = {}
  /\ lastFetchAge = 0
  /\ refreshTimers = 0

clearInterval_kept(timers, f) == timers

\* the effect's cleanup: clearInterval of the interval that effect created
clearInterval(timers, f) == {i \in timers : i.filter # f}

\* fetchAlerts up to its await: setLoading(true) and the axios.get
fetchAlerts(f) ==
  /\ Len(alertRequests) < MaxInFlight
  /\ alertRequests' = Append(alertRequests,
       [method |-> "GET", url |-> "/api/routes/monitoring/alerts",
        params |-> params(f), filter |-> f])
  /\ monLoading' = TRUE
  /\ lastFetchAge' = 0

\* the useEffect on [filter]: cleanup of the previous run, fetchAlerts(),
\* setInterval(fetchAlerts, 30000)
alertsEffect(f) ==
  /\ fetchAlerts(f)
  /\ intervals' = clearInterval(intervals, filter)
                    \cup {[filter |-> f, remaining |-> PollMs]}

MonMount ==
  /\ NoScreen
  /\ monMounted' = TRUE
  /\ alertsEffect([type |-> "", severity |-> ""])
  /\ UNCHANGED <<alerts, monError, filter, addressInput, protocolInput,
                 registrationStatus, regRequests, regTimers>>
  /\ UNCHANGED refreshTimers
  /\ UNCHANGED notMon

\* unmount: the effect's cleanup runs; what is still in flight can only call
\* the setters of the unmounted instance, which React ignores
MonUnmount ==
  /\ monMounted
  /\ monMounted' = FALSE
  /\ MonDefaults
  /\ intervals' = clearInterval(intervals, filter)
  /\ alertRequests' = <<>>
  /\ regRequests' = <<>>
  /\ regTimers' = {}
  /\ lastFetchAge' = 0
  /\ refreshTimers' = 0
  /\ UNCHANGED notMon

\* the Select calls onChange only for a value other than the selected one
handleFilterChange(name, value) ==
  /\ monMounted
  /\ value # filter[name]
  /\ filter' = [filter EXCEPT ![name] = value]
  /\ alertsEffect(filter')
  /\ UNCHANGED <<monMounted, alerts, monError, addressInput, protocolInput,
                 registrationStatus, regRequests, regTimers>>
  /\ UNCHANGED refreshTimers
  /\ UNCHANGED notMon

\* an interval that is due calls fetchAlerts of the render that created it
intervalFire(i) ==
  /\ i.remaining = 0
  /\ fetchAlerts(i.filter)
  /\ intervals' = (intervals \ {i}) \cup {[i EXCEPT !.remaining = PollMs]}
  /\ UNCHANGED <<monMounted, alerts, monError, filter, addressInput,
                 protocolInput, registrationStatus, regRequests, regTimers>>
  /\ UNCHANGED refreshTimers
  /\ UNCHANGED notMon

dropAt(s, k) == SubSeq(s, 1, k - 1) \o SubSeq(s, k + 1, Len(s))

\* fetchAlerts after its await: the response, or the mock alerts in the catch
alertsDone(k, outcome, data) ==
  /\ k \in 1..Len(alertRequests)
  /\ alertRequests' = dropAt(alertRequests, k)
  /\ IF outcome = "ok"
     THEN alerts' = data /\ monError' = "none"
     ELSE /\ alerts' = filteredMockAlerts(alertRequests[k].filter)
          /\ monError' = "This is a demonstration with mock data. The monitoring API is still in development."
  /\ monLoading' = FALSE
  /\ UNCHANGED <<monMounted, filter, addressInput, protocolInput,
                 registrationStatus, intervals, regRequests, regTimers,
                 lastFetchAge>>
  /\ UNCHANGED refreshTimers
  /\ UNCHANGED notMon

Remainings == {i.remaining : i \in intervals} \cup regTimers

Min(S) == CHOOSE x \in S : \A y \in S : x <= y

\* the clock advances by d ms, never past a timer that is due
\* time passes, up to the timer due first; the 500 ms timeout of a Refresh
\* button is due before any of them
Tick(d) ==
  /\ d > 0
  /\ refreshTimers = 0
  /\ Remainings # {}
  /\ \A x \in Remainings : d <= x
  /\ intervals' = {[i EXCEPT !.remaining = @ - d] : i \in intervals}
  /\ regTimers' = {x - d : x \in regTimers}
  /\ lastFetchAge' = lastFetchAge + d
  /\ UNCHANGED <<monMounted, monState, alertRequests, regRequests>>
  /\ UNCHANGED refreshTimers
  /\ UNCHANGED notMon

setAddressInput(value) ==
  /\ monMounted
  /\ addressInput' = value
  /\ UNCHANGED <<monMounted, alerts, monLoading, monError, filter, protocolInput,
                 registrationStatus, intervals, alertRequests, regRequests,
                 regTimers, lastFetchAge>>
  /\ UNCHANGED refreshTimers
  /\ UNCHANGED notMon

setProtocolInput(value) ==
  /\ monMounted
  /\ protocolInput' = value
  /\ UNCHANGED <<monMounted, alerts, monLoading, monError, filter, addressInput,
                 registrationStatus, intervals, alertRequests, regRequests,
                 regTimers, lastFetchAge>>
  /\ UNCHANGED refreshTimers
  /\ UNCHANGED notMon

\* what the two registration handlers differ in
registration(kind) ==
  IF kind = "address"
  THEN [url |-> "/api/routes/monitoring/register/address",
        blank |-> "Please enter a valid blockchain address",
        success |-> "Address registered successfully!",
        failure |-> "Failed to register address. This is a demonstration - address would be registered in production.",
        alertId |-> "mock-address", alertType |-> "whale_transaction"]
  ELSE [url |-> "/api/routes/monitoring/register/protocol",
        blank |-> "Please enter a valid protocol name",
        success |-> "Protocol registered successfully!",
        failure |-> "Failed to register protocol. This is a demonstration - protocol would be registered in production.",
        alertId |-> "mock-protocol", alertType |-> "security_news"]

isBlank_emptyOnly(input) == input = <<>>

\* !input || !input.trim()
isBlank(input) == input = <<>> \/ trim(input) = <<>>

\* the body of the POST: { user_id: 'demo_user', [kind]: input.trim() }
registrationBody(kind, input) ==
  [k \in {"user_id", kind} |-> IF k = "user_id" THEN "demo_user" ELSE trim(input)]

\* a registration handler up to its await
handleRegistration(kind, input) ==
  /\ monMounted
  /\ IF isBlank(input)
     THEN /\ registrationStatus' = [message |-> registration(kind).blank, type |-> "error"]
          /\ UNCHANGED regRequests
     ELSE /\ Len(regRequests) < MaxPosts
          /\ Len(SelectSeq(alerts, LAMBDA a : a.id \in {"mock-address", "mock-protocol"}))
               < MaxRegistered
          /\ regRequests' = Append(regRequests,
               [kind |-> kind, url |-> registration(kind).url,
                body |-> registrationBody(kind, input)])
          /\ UNCHANGED registrationStatus
  /\ UNCHANGED <<monMounted, alerts, monLoading, monError, filter, addressInput,
                 protocolInput, intervals, alertRequests, regTimers, lastFetchAge>>
  /\ UNCHANGED refreshTimers
  /\ UNCHANGED notMon

handleAddressRegistration == handleRegistration("address", addressInput)

handleProtocolRegistration == handleRegistration("protocol", protocolInput)

\* a registration handler after its await: success message, cleared input and
\* one more alert, or the failure message; then the 3 s timeout
registrationDone(k, outcome) ==
  /\ k \in 1..Len(regRequests)
  /\ regRequests' = dropAt(regRequests, k)
  /\ LET r == regRequests[k]
         c == registration(r.kind)
     IN  IF outcome = "ok"
         THEN /\ registrationStatus' = [message |-> c.success, type |-> "success"]
              /\ addressInput' = IF r.kind = "address" THEN <<>> ELSE addressInput
              /\ protocolInput' = IF r.kind = "protocol" THEN <<>> ELSE protocolInput
              /\ alerts' = <<alert(c.alertId, c.alertType, "low")>> \o alerts
         ELSE /\ registrationStatus' = [message |-> c.failure, type |-> "error"]
              /\ UNCHANGED <<addressInput, protocolInput, alerts>>
  /\ regTimers' = regTimers \cup {StatusClearMs}
  /\ UNCHANGED <<monMounted, monLoading, monError, filter, intervals,
                 alertRequests, lastFetchAge>>
  /\ UNCHANGED refreshTimers
  /\ UNCHANGED notMon

\* setTimeout(() => setRegistrationStatus({ message: '', type: '' }), 3000)
clearStatusTimeout ==
  /\ 0 \in regTimers
  /\ regTimers' = regTimers \ {0}
  /\ registrationStatus' = NoRegistrationStatus
  /\ UNCHANGED <<monMounted, alerts, monLoading, monError, filter, addressInput,
                 protocolInput, intervals, alertRequests, regRequests,
                 lastFetchAge>>
  /\ UNCHANGED refreshTimers
  /\ UNCHANGED notMon

\* onClick of the Refresh and Refresh Data buttons: setLoading(true) and a
\* timeout of 500 ms
handleRefresh ==
  /\ monMounted
  /\ refreshTimers < MaxRefresh
  /\ monLoading' = TRUE
  /\ refreshTimers' = refreshTimers + 1
  /\ UNCHANGED <<monMounted, alerts, monError, filter, addressInput, protocolInput,
                 registrationStatus, intervals, alertRequests, regRequests,
                 regTimers, lastFetchAge>>
  /\ UNCHANGED notMon

\* setTimeout(() => setLoading(false), 500)
refreshTimeout ==
  /\ refreshTimers > 0
  /\ monLoading' = FALSE
  /\ refreshTimers' = refreshTimers - 1
  /\ UNCHANGED <<monMounted, alerts, monError, filter, addressInput, protocolInput,
                 registrationStatus, intervals, alertRequests, regRequests,
                 regTimers, lastFetchAge>>
  /\ UNCHANGED notMon

\* ------------------------------------------------------------ AlertCard
\* One card of the alert list is followed: React keeps its instance, and with
\* it its expanded state, for as long as the list holds an alert with its key
\* (key={alert.id}); a later response may carry that id with another
\* description.
TruncateAt == 100

Digits == <<"0", "1", "2", "3", "4", "5", "6", "7", "8", "9">>

\* a description of n characters
Description(n) == [i \in 1..n |-> Digits[(i % 10) + 1]]

\* the lengths of the descriptions tried: none, around the limit, and that of
\* the first mock alert
DescriptionLengths == {0, 99, 100, 101, 148}

notCard == <<shellVars, layoutVars, ev, tgVars, monVars, formVars>>

CardInit == [mounted |-> FALSE, description |-> <<>>, expanded |-> FALSE]

\* description.substring(0, 100)
substring(s, from, to) ==
  SubSeq(s, from + 1, IF to < Len(s) THEN to ELSE Len(s))

collapsedText_fromLimit(description) ==
  substring(description, 0, TruncateAt)
    \o (IF Len(description) >= TruncateAt THEN <<".", ".", ".">> ELSE <<>>)

\* the template literal shown while not expanded
collapsedText(description) ==
  substring(description, 0, TruncateAt)
    \o (IF Len(description) > TruncateAt THEN <<".", ".", ".">> ELSE <<>>)

\* the body text of the card
shownText(c) == IF c.expanded THEN c.description ELSE collapsedText(c.description)

\* alert.description.length > 100 && <Button ...>
hasToggle(c) == Len(c.description) > TruncateAt

\* the alert list comes to hold the alert of this card: useState(false)
CardMount(n) ==
  /\ monMounted /\ ~card.mounted
  /\ card' = [mounted |-> TRUE, description |-> Description(n), expanded |-> FALSE]
  /\ UNCHANGED notCard

\* a later alert list holds the same id with another description
CardUpdate(n) ==
  /\ monMounted /\ card.mounted
  /\ Description(n) # card.description
  /\ card' = [card EXCEPT !.description = Description(n)]
  /\ UNCHANGED notCard

\* the alert leaves the list
CardUnmount ==
  /\ card.mounted
  /\ card' = CardInit
  /\ UNCHANGED notCard

\* onClick of Show more / Show less: setExpanded(!expanded)
toggleExpanded ==
  /\ card.mounted /\ hasToggle(card)
  /\ card' = [card EXCEPT !.expanded = ~card.expanded]
  /\ UNCHANGED notCard

\* --------------------------------------------------------- request forms
\* A request in flight is [screen, kind, url, body] while the instance that
\* issued it is mounted.  Unmounting cancels nothing: the request stays in
\* flight, counted in orphans under its screen and kind, and what completes
\* afterwards calls the setters of an unmounted instance, which React ignores.
MaxOrphans == 1

MaxMessages == 5

request_of(screen, kind, url, body) ==
  [screen |-> screen, kind |-> kind, url |-> url, body |-> body]

OrphanKinds ==
  {<<"contract-analysis", "delay">>, <<"contract-analysis", "POST">>,
   <<"activity-monitoring", "POST">>, <<"risk-assessment", "POST">>,
   <<"chat", "POST">>}

pendingOf(screen, kind) ==
  Cardinality({r \in formRequests : r.screen = screen /\ r.kind = kind})

RECURSIVE Sum(_, _)
Sum(f, S) ==
  IF S = {} THEN 0
  ELSE LET x == CHOOSE y \in S : TRUE IN f[x] + Sum(f, S \ {x})

mayLeave(screen) ==
  Sum(orphans, OrphanKinds) + pendingOf(screen, "delay") + pendingOf(screen, "POST")
    <= MaxOrphans

\* unmount of a screen: its requests in flight become orphans
leave(screen) ==
  /\ mayLeave(screen)
  /\ formRequests' = {r \in formRequests : r.screen # screen}
  /\ orphans' = [k \in OrphanKinds |->
                   orphans[k] + IF k[1] = screen THEN pendingOf(screen, k[2]) ELSE 0]

busy_never(form) == FALSE

\* disabled={loading} of the submit button
busy(form) == form.loading

settle_again(r) ==
  /\ r \in formRequests
  /\ UNCHANGED <<formRequests, orphans>>

\* the continuation of request r runs
settle(r) ==
  /\ r \in formRequests
  /\ formRequests' = formRequests \ {r}
  /\ UNCHANGED orphans

\* ... or that of a request whose instance is gone
orphanDone(k) ==
  /\ orphans[k] > 0
  /\ orphans' = [orphans EXCEPT ![k] = @ - 1]
  /\ UNCHANGED <<ca, cm, ra, chat, formRequests>>
  /\ UNCHANGED notForms

\* ---- ContractAnalysis.js
EXAMPLE_CONTRACTS ==
  [k \in {"none", "vulnerablePool", "securePool", "ftsoExample"} |->
     CASE k = "none" -> [name |-> "", code |-> ""]
       [] k = "vulnerablePool" -> [name |-> "VulnerableFlarePool", code |-> "code of vulnerablePool"]
       [] k = "securePool" -> [name |-> "SecureFlarePool", code |-> "code of securePool"]
       [] OTHER -> [name |-> "FlarePriceOracle", code |-> "code of ftsoExample"]]

sampleContracts ==
  << [name |-> "FlareToken", address |-> "0x1234567890123456789012345678901234567890",
      code |-> "code of FlareToken"],
     [name |-> "VulnerableBank", address |-> "0xabcdef1234567890abcdef1234567890abcdef12",
      code |-> "code of VulnerableBank"],
     [name |-> "SimpleNFT", address |-> "0x9876543210fedcba9876543210fedcba98765432",
      code |-> "code of SimpleNFT"] >>

sampleAnalysisResults ==
  << [securityScore |-> 85], [securityScore |-> 40], [securityScore |-> 75] >>

\* the members of the analysis that the result panel reads
displayedFields == {"securityScore", "codeQuality", "vulnerabilities", "gasAnalysis"}

CAInit ==
  [mounted |-> FALSE, contractCode |-> "", contractName |-> "",
   selectedExample |-> "none", loading |-> FALSE, error |-> "null",
   analysis |-> <<>>, contractAddress |-> ""]

CAMount ==
  /\ NoScreen
  /\ ca' = [CAInit EXCEPT !.mounted = TRUE]
  /\ UNCHANGED <<cm, ra, chat, formRequests, orphans>>
  /\ UNCHANGED notForms

CAUnmount ==
  /\ ca.mounted
  /\ ca' = CAInit
  /\ leave("contract-analysis")
  /\ UNCHANGED <<cm, ra, chat>>
  /\ UNCHANGED notForms

setContractCode(value) ==
  /\ ca.mounted
  /\ ca' = [ca EXCEPT !.contractCode = value]
  /\ UNCHANGED <<cm, ra, chat, formRequests, orphans>>
  /\ UNCHANGED notForms

setContractName(value) ==
  /\ ca.mounted
  /\ ca' = [ca EXCEPT !.contractName = value]
  /\ UNCHANGED <<cm, ra, chat, formRequests, orphans>>
  /\ UNCHANGED notForms

handleLoadSampleContract(index) ==
  /\ ca.mounted
  /\ ca' = IF index >= 0 /\ index < Len(sampleContracts)
           THEN LET sample == sampleContracts[index + 1]
                IN  [ca EXCEPT !.contractName = sample.name,
                               !.contractAddress = sample.address,
                               !.contractCode = sample.code,
                               !.selectedExample = "",
                               !.analysis = <<>>,
                               !.error = ""]
           ELSE ca
  /\ UNCHANGED <<cm, ra, chat, formRequests, orphans>>
  /\ UNCHANGED notForms

handleExampleChange(value) ==
  /\ ca.mounted
  /\ value # ca.selectedExample
  /\ ca' = [ca EXCEPT !.selectedExample = value,
                      !.contractName = EXAMPLE_CONTRACTS[value].name,
                      !.contractCode = EXAMPLE_CONTRACTS[value].code]
  /\ UNCHANGED <<cm, ra, chat, formRequests, orphans>>
  /\ UNCHANGED notForms

sampleIndex_none(form) == {}

\* sampleContracts.findIndex(...): the indices (from 0) that match
sampleIndex(form) ==
  {i - 1 : i \in {j \in 1..Len(sampleContracts) :
                    /\ sampleContracts[j].code = form.contractCode
                    /\ sampleContracts[j].address = form.contractAddress}}

\* JSON.stringify of the POST body leaves out the undefined members
analysisBody(form) ==
  [k \in {"contract_code"}
         \cup (IF form.contractAddress # "" THEN {"contract_address"} ELSE {})
         \cup (IF form.contractName # "" THEN {"contract_name"} ELSE {}) |->
     CASE k = "contract_code" -> form.contractCode
       [] k = "contract_address" -> form.contractAddress
       [] OTHER -> form.contractName]

\* handleAnalyze up to its await
handleAnalyze ==
  /\ ca.mounted /\ ~busy(ca)
  /\ IF ca.contractCode = ""
     THEN /\ ca' = [ca EXCEPT !.error = "Please enter contract code or select an example"]
          /\ UNCHANGED formRequests
     ELSE /\ ca' = [ca EXCEPT !.loading = TRUE, !.error = ""]
          /\ formRequests' = formRequests \cup
               {IF sampleIndex(ca) # {}
                THEN request_of("contract-analysis", "delay", "", [sample |-> Min(sampleIndex(ca))])
                ELSE request_of("contract-analysis", "POST",
                                "http://localhost:8080/api/routes/analysis/contract",
                                analysisBody(ca))}
  /\ UNCHANGED <<cm, ra, chat, orphans>>
  /\ UNCHANGED notForms

\* handleAnalyze after its await: the sample result after the delay, the
\* response, or the error of the catch (its text ends in err.message, left
\* out here); loading is cleared in each
analyzeDone(r, outcome, data) ==
  /\ r.screen = "contract-analysis"
  /\ settle(r)
  /\ ca' = CASE r.kind = "delay" ->
                  [ca EXCEPT !.analysis = <<sampleAnalysisResults[r.body.sample + 1]>>,
                             !.loading = FALSE]
             [] r.kind # "delay" /\ outcome = "ok" ->
                  [ca EXCEPT !.analysis = <<data>>, !.loading = FALSE]
             [] OTHER ->
                  [ca EXCEPT !.error = "Failed to analyze contract", !.loading = FALSE]
  /\ UNCHANGED <<cm, ra, chat>>
  /\ UNCHANGED notForms

\* ---- ContractMonitoring (activity monitoring)
CMInit ==
  [mounted |-> FALSE, contractAddress |-> "", numBlocks |-> <<"1", "0", "0", "0">>,
   loading |-> FALSE, error |-> "null", activities |-> <<>>]

CMMount ==
  /\ NoScreen
  /\ cm' = [CMInit EXCEPT !.mounted = TRUE]
  /\ UNCHANGED <<ca, ra, chat, formRequests, orphans>>
  /\ UNCHANGED notForms

CMUnmount ==
  /\ cm.mounted
  /\ cm' = CMInit
  /\ leave("activity-monitoring")
  /\ UNCHANGED <<ca, ra, chat>>
  /\ UNCHANGED notForms

setContractAddress(value) ==
  /\ cm.mounted
  /\ cm' = [cm EXCEPT !.contractAddress = value]
  /\ UNCHANGED <<ca, ra, chat, formRequests, orphans>>
  /\ UNCHANGED notForms

setNumBlocks(value) ==
  /\ cm.mounted
  /\ cm' = [cm EXCEPT !.numBlocks = value]
  /\ UNCHANGED <<ca, ra, chat, formRequests, orphans>>
  /\ UNCHANGED notForms

\* handleMonitor up to its await
handleMonitor ==
  /\ cm.mounted /\ ~busy(cm)
  /\ IF cm.contractAddress = ""
     THEN /\ cm' = [cm EXCEPT !.error = "Please provide a contract address"]
          /\ UNCHANGED formRequests
     ELSE /\ cm' = [cm EXCEPT !.loading = TRUE, !.error = "null"]
          /\ formRequests' = formRequests \cup
               {request_of("activity-monitoring", "POST", "/api/routes/contracts/monitor",
                           [contract_address |-> cm.contractAddress,
                            num_blocks |-> parseInt(cm.numBlocks)])}
  /\ UNCHANGED <<ca, ra, chat, orphans>>
  /\ UNCHANGED notForms

\* err.message in the catch of handleMonitor: of the Error thrown for a
\* response that is not ok, or of the rejection of fetch itself
MonitorErrors == {"Monitoring failed", "Failed to fetch"}

monitorDone_noFinally(r, outcome, data) ==
  /\ r.screen = "activity-monitoring"
  /\ settle(r)
  /\ cm' = IF outcome = "ok"
           THEN [cm EXCEPT !.activities = <<data>>, !.loading = FALSE]
           ELSE [cm EXCEPT !.error = data]
  /\ UNCHANGED <<ca, ra, chat>>
  /\ UNCHANGED notForms

\* handleMonitor after its await: data is the response, or err.message
monitorDone(r, outcome, data) ==
  /\ r.screen = "activity-monitoring"
  /\ settle(r)
  /\ cm' = IF outcome = "ok"
           THEN [cm EXCEPT !.activities = <<data>>, !.loading = FALSE]
           ELSE [cm EXCEPT !.error = data, !.loading = FALSE]
  /\ UNCHANGED <<ca, ra, chat>>
  /\ UNCHANGED notForms

\* ---- RiskAssessment.js
RAInit ==
  [mounted |-> FALSE, targetType |-> "contract", targetId |-> <<>>,
   additionalContext |-> <<>>, loading |-> FALSE, error |-> "null", result |-> <<>>]

RAMount ==
  /\ NoScreen
  /\ ra' = [RAInit EXCEPT !.mounted = TRUE]
  /\ UNCHANGED <<ca, cm, chat, formRequests, orphans>>
  /\ UNCHANGED notForms

RAUnmount ==
  /\ ra.mounted
  /\ ra' = RAInit
  /\ leave("risk-assessment")
  /\ UNCHANGED <<ca, cm, chat>>
  /\ UNCHANGED notForms

\* the form is rendered while there is no result
setTargetType(value) ==
  /\ ra.mounted /\ ra.result = <<>>
  /\ value # ra.targetType
  /\ ra' = [ra EXCEPT !.targetType = value, !.targetId = <<>>, !.additionalContext = <<>>]
  /\ UNCHANGED <<ca, cm, chat, formRequests, orphans>>
  /\ UNCHANGED notForms

setTargetId(value) ==
  /\ ra.mounted /\ ra.result = <<>>
  /\ ra' = [ra EXCEPT !.targetId = value]
  /\ UNCHANGED <<ca, cm, chat, formRequests, orphans>>
  /\ UNCHANGED notForms

setAdditionalContext(value) ==
  /\ ra.mounted /\ ra.result = <<>>
  /\ ra' = [ra EXCEPT !.additionalContext = value]
  /\ UNCHANGED <<ca, cm, chat, formRequests, orphans>>
  /\ UNCHANGED notForms

assessBody_always(form) ==
  [k \in {"target_type", "target_id", "additional_context"} |->
     CASE k = "target_type" -> <<form.targetType>>
       [] k = "target_id" -> trim(form.targetId)
       [] OTHER -> trim(form.additionalContext)]

\* the body of the POST; axios leaves out a member that is undefined
assessBody(form) ==
  [k \in {"target_type", "target_id"}
         \cup (IF trim(form.additionalContext) # <<>> THEN {"additional_context"} ELSE {}) |->
     CASE k = "target_type" -> <<form.targetType>>
       [] k = "target_id" -> trim(form.targetId)
       [] OTHER -> trim(form.additionalContext)]

\* RiskAssessment handleSubmit up to its await
RA_handleSubmit ==
  /\ ra.mounted /\ ra.result = <<>> /\ ~busy(ra)
  /\ IF trim(ra.targetId) = <<>>
     THEN /\ ra' = [ra EXCEPT !.error = "Please enter a target ID (contract address, protocol name, etc.)"]
          /\ UNCHANGED formRequests
     ELSE /\ ra' = [ra EXCEPT !.loading = TRUE, !.error = "null"]
          /\ formRequests' = formRequests \cup
               {request_of("risk-assessment", "POST", "/api/routes/risk-assessment/assess",
                           assessBody(ra))}
  /\ UNCHANGED <<ca, cm, chat, orphans>>
  /\ UNCHANGED notForms

\* the mock result of the catch: targetType and targetId.trim() as the
\* submitting render saw them, and a random level
mockResult(r, level) ==
  [target_type |-> r.body["target_type"][1], target_id |-> r.body["target_id"],
   overall_risk_level |-> level]

\* RiskAssessment handleSubmit after its await; the catch substitutes the mock
\* result in a development build only
assessDone(r, outcome, data) ==
  /\ r.screen = "risk-assessment"
  /\ settle(r)
  /\ ra' = CASE outcome = "ok" -> [ra EXCEPT !.result = <<data>>, !.loading = FALSE]
             [] outcome # "ok" /\ nodeEnv = "development" ->
                  [ra EXCEPT !.result = <<mockResult(r, data.overall_risk_level)>>,
                             !.loading = FALSE]
             [] OTHER ->
                  [ra EXCEPT !.error = "Failed to perform risk assessment", !.loading = FALSE]
  /\ UNCHANGED <<ca, cm, chat>>
  /\ UNCHANGED notForms

handleReset ==
  /\ ra.mounted /\ ra.result # <<>>
  /\ ra' = [ra EXCEPT !.result = <<>>, !.error = "null"]
  /\ UNCHANGED <<ca, cm, chat, formRequests, orphans>>
  /\ UNCHANGED notForms

\* ---- Chat
ChatInit ==
  [mounted |-> FALSE, messages |-> <<[text |-> <<"greeting">>, type |-> "bot"]>>,
   inputText |-> <<>>, isLoading |-> FALSE]

ChatMount ==
  /\ NoScreen
  /\ chat' = [ChatInit EXCEPT !.mounted = TRUE]
  /\ UNCHANGED <<ca, cm, ra, formRequests, orphans>>
  /\ UNCHANGED notForms

ChatUnmount_keeps ==
  /\ chat.mounted
  /\ chat' = [chat EXCEPT !.mounted = FALSE]
  /\ leave("chat")
  /\ UNCHANGED <<ca, cm, ra>>
  /\ UNCHANGED notForms

ChatUnmount ==
  /\ chat.mounted
  /\ chat' = ChatInit
  /\ leave("chat")
  /\ UNCHANGED <<ca, cm, ra>>
  /\ UNCHANGED notForms

\* the text field is disabled={isLoading}
setInputText(value) ==
  /\ chat.mounted /\ ~chat.isLoading
  /\ chat' = [chat EXCEPT !.inputText = value]
  /\ UNCHANGED <<ca, cm, ra, formRequests, orphans>>
  /\ UNCHANGED notForms

Chat_handleSubmit_notLoading ==
  /\ chat.mounted
  /\ IF trim(chat.inputText) = <<>> \/ chat.isLoading
     THEN UNCHANGED <<chat, formRequests>>
     ELSE /\ Len(chat.messages) + 2 <= MaxMessages
          /\ chat' = [chat EXCEPT !.inputText = <<>>,
                        !.messages = Append(@, [text |-> trim(chat.inputText), type |-> "user"])]
          /\ formRequests' = formRequests \cup
               {request_of("chat", "POST", "/api/routes/chat/",
                           [message |-> trim(chat.inputText)])}
  /\ UNCHANGED <<ca, cm, ra, orphans>>
  /\ UNCHANGED notForms

\* Chat handleSubmit up to the await in handleSendMessage; the field and the
\* Send button are disabled={isLoading}, and the handler has its own guard
Chat_handleSubmit ==
  /\ chat.mounted
  /\ IF trim(chat.inputText) = <<>> \/ chat.isLoading
     THEN UNCHANGED <<chat, formRequests>>
     ELSE /\ Len(chat.messages) + 2 <= MaxMessages
          /\ chat' = [chat EXCEPT !.inputText = <<>>, !.isLoading = TRUE,
                        !.messages = Append(@, [text |-> trim(chat.inputText), type |-> "user"])]
          /\ formRequests' = formRequests \cup
               {request_of("chat", "POST", "/api/routes/chat/",
                           [message |-> trim(chat.inputText)])}
  /\ UNCHANGED <<ca, cm, ra, orphans>>
  /\ UNCHANGED notForms

\* handleSendMessage after its await, then the rest of handleSubmit
sendMessageDone(r, outcome, data) ==
  /\ r.screen = "chat"
  /\ settle(r)
  /\ chat' = [chat EXCEPT
       !.messages = Append(@,
          [text |-> IF outcome = "ok" THEN data
                    ELSE <<"Sorry, there was an error processing your request. Please try again.">>,
           type |-> "bot"]),
       !.isLoading = FALSE]
  /\ UNCHANGED <<ca, cm, ra>>
  /\ UNCHANGED notForms

FormsInit ==
  /\ ca = CAInit /\ cm = CMInit /\ ra = RAInit /\ chat = ChatInit
  /\ formRequests = {}
  /\ orphans = [k \in OrphanKinds |-> 0]
  /\ nodeEnv \in {"development", "production"}

RiskLevels == {"low", "medium", "high", "critical"}

\* what happens on a form while it stays on screen
FormSteps ==
  \/ CAMount
  \/ \E value \in {"", "custom code"} : setContractCode(value)
  \/ \E value \in {"", "MyToken"} : setContractName(value)
  \/ \E index \in {0, 1} : handleLoadSampleContract(index)
  \/ \E value \in {"none", "securePool"} : handleExampleChange(value)
  \/ handleAnalyze
  \/ \E r \in formRequests : analyzeDone(r, "ok", [securityScore |-> 60])
  \/ \E r \in formRequests : analyzeDone(r, "fail", <<>>)
  \/ CMMount
  \/ \E value \in {"", "0xabc"} : setContractAddress(value)
  \/ \E value \in {<<>>, <<"5", "0">>} : setNumBlocks(value)
  \/ handleMonitor
  \/ \E r \in formRequests, data \in {<<>>, <<"transfer">>} : monitorDone(r, "ok", data)
  \/ \E r \in formRequests, message \in MonitorErrors : monitorDone(r, "fail", message)
  \/ RAMount
  \/ \E value \in {"contract", "protocol", "address"} : setTargetType(value)
  \/ \E value \in InputStrings : setTargetId(value)
  \/ \E value \in {<<>>, <<" ">>, <<"a">>} : setAdditionalContext(value)
  \/ RA_handleSubmit
  \/ \E r \in formRequests, level \in RiskLevels :
       assessDone(r, "ok", [target_type |-> r.body["target_type"][1],
                            target_id |-> r.body["target_id"],
                            overall_risk_level |-> level])
  \/ \E r \in formRequests, level \in RiskLevels :
       assessDone(r, "fail", [overall_risk_level |-> level])
  \/ handleReset
  \/ ChatMount
  \/ \E value \in InputStrings : setInputText(value)
  \/ Chat_handleSubmit
  \/ \E r \in formRequests : sendMessageDone(r, "ok", <<"answer">>)
  \/ \E r \in formRequests : sendMessageDone(r, "fail", <<>>)

NextForms ==
  \/ FormSteps
  \/ CAUnmount
  \/ CMUnmount
  \/ RAUnmount
  \/ ChatUnmount
  \/ \E k \in OrphanKinds : orphanDone(k)

\* what happens on the panel while it stays mounted
TgSteps ==
  \/ TgMount
  \/ \E value \in ChatIdStrings : setChatId(value)
  \/ \E value \in SAMPLE_PROTOCOLS \cup {""} : setProtocol(value)
  \/ \E value \in SAMPLE_ADDRESSES \cup {""} : setAddress(value)
  \/ closeStatusMessage
  \/ handleConnect
  \/ \E t \in tgTimers : connectTimeout(t)
  \/ handleDisconnect
  \/ \E t \in tgTimers : disconnectTimeout(t)
  \/ handleSubscribe
  \/ \E r \in tgRequests, outcome \in Outcomes : subscribeDone(r, outcome)
  \/ handleUnsubscribe
  \/ \E r \in tgRequests, outcome \in Outcomes : unsubscribeDone(r, outcome)
  \/ handleMonitorProtocol
  \/ \E r \in tgRequests, outcome \in Outcomes : monitorProtocolDone(r, outcome)
  \/ handleMonitorAddress
  \/ \E r \in tgRequests, outcome \in Outcomes : monitorAddressDone(r, outcome)
  \/ \E p \in SAMPLE_PROTOCOLS : handleRemoveProtocol(p)
  \/ \E a \in SAMPLE_ADDRESSES : handleRemoveAddress(a)

NextTelegram ==
  \/ TgSteps
  \/ TgUnmount


Init ==
  /\ ShellInit
  /\ TgInit
  /\ MonInit
  /\ FormsInit
  /\ card = CardInit
  /\ ev = "init"

NextShell ==
  \/ AppReload
  \/ handleGetStarted
  \/ \E page \in MenuValues : handlePageChange(page)
  \/ handleBackToLanding
  \/ handleLogout
  \/ handleDrawerToggle
  \/ handleProfileMenuOpen
  \/ handleProfileMenuClose
  \/ handleNotificationMenuOpen
  \/ handleNotificationMenuClose

\* the next clock step: to the nearest due time, TickMs at most
TickStep ==
  IF Remainings # {} /\ Min(Remainings) < TickMs THEN Min(Remainings) ELSE TickMs

NextPolling ==
  \/ MonMount
  \/ MonUnmount
  \/ \E value \in FilterTypes : handleFilterChange("type", value)
  \/ \E value \in FilterSeverities : handleFilterChange("severity", value)
  \/ \E i \in intervals : intervalFire(i)
  \/ \E k \in 1..Len(alertRequests), data \in ServerData : alertsDone(k, "ok", data)
  \/ \E k \in 1..Len(alertRequests) : alertsDone(k, "fail", <<>>)
  \/ \E d \in {TickStep} : Tick(d)

NextRegistration ==
  \/ MonMount
  \/ \E k \in 1..Len(alertRequests) : alertsDone(k, "fail", <<>>)
  \/ \E value \in InputStrings : setAddressInput(value)
  \/ \E value \in InputStrings : setProtocolInput(value)
  \/ handleAddressRegistration
  \/ handleProtocolRegistration
  \/ \E k \in 1..Len(regRequests), outcome \in Outcomes : registrationDone(k, outcome)

\* every screen that issues requests, from opening it on
NextScreens ==
  \/ FormSteps
  \/ NextRegistration
  \/ TgSteps

SpecShell == Init /\ [][NextShell]_vars

InitStored ==
  /\ ShellInitStored
  /\ TgInit
  /\ MonInit
  /\ FormsInit
  /\ card = CardInit
  /\ ev = "init"

\* the shell, started with any currentPage item in localStorage
SpecRender == InitStored /\ [][NextShell]_vars

SpecTelegram == Init /\ [][NextTelegram]_vars

\* the panel left and reopened at any time, its pending work completing later
NextTgPages ==
  \/ TgMount
  \/ TgUnmount
  \/ TgLeave
  \/ \E value \in {<<"4", "2">>} : setChatId(value)
  \/ \E value \in {"Aave"} : setProtocol(value)
  \/ handleConnect
  \/ \E t \in tgTimers : connectTimeout(t)
  \/ handleDisconnect
  \/ \E t \in tgTimers : disconnectTimeout(t)
  \/ handleSubscribe
  \/ \E r \in tgRequests, outcome \in Outcomes : subscribeDone(r, outcome)
  \/ handleUnsubscribe
  \/ \E r \in tgRequests, outcome \in Outcomes : unsubscribeDone(r, outcome)
  \/ handleMonitorProtocol
  \/ \E r \in tgRequests, outcome \in Outcomes : monitorProtocolDone(r, outcome)
  \/ \E p \in {"Aave"} : handleRemoveProtocol(p)
  \/ \E t \in tgOrphans.timers : orphanTimeout(t)
  \/ \E r \in tgOrphans.requests : orphanRequestDone(r)

SpecTgPages == Init /\ [][NextTgPages]_vars

SpecPolling == Init /\ [][NextPolling]_vars

\* alert polling with the Refresh buttons
NextLoading ==
  \/ NextPolling
  \/ handleRefresh
  \/ refreshTimeout

SpecLoading == Init /\ [][NextLoading]_vars

\* registration with its status timeouts running, beside the polling
NextStatus ==
  \/ MonMount
  \/ \E k \in 1..Len(alertRequests) : alertsDone(k, "fail", <<>>)
  \/ \E value \in InputStrings : setAddressInput(value)
  \/ \E value \in {<<>>, <<"a">>} : setProtocolInput(value)
  \/ handleAddressRegistration
  \/ handleProtocolRegistration
  \/ \E k \in 1..Len(regRequests), outcome \in Outcomes : registrationDone(k, outcome)
  \/ clearStatusTimeout
  \/ \E i \in intervals : intervalFire(i)
  \/ \E d \in {TickStep} : Tick(d)

SpecStatus == Init /\ [][NextStatus]_vars

\* a clock step for the status timeouts: one second, or up to what is due next
StatusTicks == {1000, TickStep}

\* registrations that complete at different times, with their status
\* timeouts running
NextTimers ==
  \/ MonMount
  \/ \E k \in 1..Len(alertRequests) : alertsDone(k, "fail", <<>>)
  \/ \E value \in {<<>>, <<"a">>} : setAddressInput(value)
  \/ handleAddressRegistration
  \/ handleProtocolRegistration
  \/ \E k \in 1..Len(regRequests), outcome \in Outcomes : registrationDone(k, outcome)
  \/ clearStatusTimeout
  \/ \E i \in intervals : intervalFire(i)
  \/ \E d \in StatusTicks : Tick(d)

SpecTimers == Init /\ [][NextTimers]_vars

\* an alert card on the monitoring screen, while the list is polled
NextCards ==
  \/ MonMount
  \/ \E k \in 1..Len(alertRequests) : alertsDone(k, "fail", <<>>)
  \/ \E i \in intervals : intervalFire(i)
  \/ \E d \in {TickStep} : Tick(d)
  \/ \E n \in DescriptionLengths : CardMount(n)
  \/ \E n \in DescriptionLengths : CardUpdate(n)
  \/ CardUnmount
  \/ toggleExpanded

SpecCards == Init /\ [][NextCards]_vars

SpecRegistration == Init /\ [][NextRegistration]_vars

SpecForms == Init /\ [][NextForms]_vars

SpecScreens == Init /\ [][NextScreens]_vars


\* ------------------------------------------------------- claims: shell
\* the screen that belongs to each sidebar entry
OwnScreen(page) ==
  CASE page = "dashboard"             -> "DashboardHome"
    [] page = "contract-analysis"     -> "ContractAnalysis"
    [] page = "activity-monitoring"   -> "ContractMonitoring"
    [] page = "blockchain-monitoring" -> "MonitoringDashboard"
    [] page = "risk-assessment"       -> "RiskAssessment"
    [] page = "telegram-bot"          -> "TelegramBot"
    [] page = "chat"                  -> "Chat"

\* C3: once a sidebar entry has been selected the shell renders that entry's
\* own screen, for every entry of the menu, the Telegram bot panel included.
C3_SelectedEntryRendersOwnScreen ==
  ev = "App.handlePageChange" => Rendered = OwnScreen(currentPage)

\* C5: right after a reload showDashboard is true exactly when the last of
\* Get Started / Back to Home was Get Started, and currentPage is the last
\* page given to handlePageChange ('dashboard' if none), whether or not a
\* Back to Home came after that page change.
C5_ReloadRestoresShell ==
  ev = "App.reload" =>
    /\ showDashboard <=> (lastShellAction = "getStarted")
    /\ currentPage = IF lastPage = "none" THEN "dashboard" ELSE lastPage

C5_Witness ==
  /\ ev = "App.reload"
  /\ lastShellAction = "back"
  /\ lastPage = "risk-assessment"
  /\ currentPage = "risk-assessment"
  /\ ~showDashboard

\* ---------------------------------------------- claims: Telegram panel
TgIdle == tgTimers = {} /\ tgRequests = {}

C10_RequestsOnlyWhileConnected ==
  \A r \in tgRequests :
    /\ isConnected
    /\ r.op \in {"subscribe", "unsubscribe", "monitorProtocol", "monitorAddress"}
    /\ DOMAIN r.body = {"chat_id"}
    /\ r.body.chat_id = parseInt(chatId)
    /\ chatId = <<"4", "2">> => r.body.chat_id = [nan |-> FALSE, n |-> 42]

C10_Witness ==
  \E r \in tgRequests :
    /\ r.op = "monitorProtocol"
    /\ r.body.chat_id = [nan |-> FALSE, n |-> 42]
    /\ isConnected /\ isSubscribed
    /\ lsTg["telegram_chat_id"] = {<<"7", "x">>}

\* ------------------------------------------- claims: monitoring dashboard
\* C2: while the screen is mounted exactly one interval timer runs, it belongs
\* to the current filter and is due 30 s after the last alert request left;
\* while it is unmounted no timer is left.  An alert request is issued only by
\* the mount, by a filter change or by that timer when 30 s have passed, and
\* always with the parameters of the current filter.
C2_PollsEvery30sUntilCancelled ==
  /\ [](IF monMounted
        THEN intervals = {[filter |-> filter, remaining |-> PollMs - lastFetchAge]}
        ELSE intervals = {})
  /\ [][Len(alertRequests') > Len(alertRequests) =>
          /\ monMounted'
          /\ ~monMounted \/ filter' # filter \/ lastFetchAge = 30000
          /\ alertRequests' = Append(alertRequests, alertRequests'[Len(alertRequests')])
          /\ alertRequests'[Len(alertRequests')].filter = filter'
          /\ alertRequests'[Len(alertRequests')].params = params(filter')
          /\ lastFetchAge' = 0]_vars

\* the timer re-issued the request of a filtered list while the previous one
\* was still in flight
C2_Witness ==
  /\ monMounted
  /\ filter = [type |-> "security_news", severity |-> "high"]
  /\ Len(alertRequests) = 2
  /\ alertRequests[1] = alertRequests[2]
  /\ alertRequests[2].filter = filter
  /\ lastFetchAge = 0

\* C8: every alert request in flight is a GET of /api/routes/monitoring/alerts
\* with limit = 50, with alert_type exactly when the type filter it was made
\* under is non-empty and severity exactly when the severity filter is, each
\* with the filter's value.
C8_AlertRequestParams ==
  \A k \in 1..Len(alertRequests) :
       LET r == alertRequests[k]
       IN  /\ r.method = "GET"
           /\ r.url = "/api/routes/monitoring/alerts"
           /\ r.filter.type \in FilterTypes /\ r.filter.severity \in FilterSeverities
           /\ DOMAIN r.params =
                {"limit"} \cup (IF r.filter.type = "" THEN {} ELSE {"alert_type"})
                          \cup (IF r.filter.severity = "" THEN {} ELSE {"severity"})
           /\ r.params["limit"] = 50
           /\ r.filter.type # "" => r.params["alert_type"] = r.filter.type
           /\ r.filter.severity # "" => r.params["severity"] = r.filter.severity

C8_Witness ==
  /\ Len(alertRequests) = 2
  /\ alertRequests[1].filter = [type |-> "", severity |-> "low"]
  /\ DOMAIN alertRequests[1].params = {"limit", "severity"}
  /\ alertRequests[2].filter = [type |-> "vulnerable_contract", severity |-> "low"]
  /\ DOMAIN alertRequests[2].params = {"limit", "alert_type", "severity"}
  /\ alertRequests[2].params["alert_type"] = "vulnerable_contract"

\* C9: a click on Register Address or Register Protocol with an input that
\* holds a non-whitespace character issues one POST to the kind's endpoint
\* whose body is {user_id: 'demo_user', <kind>: the input without its leading
\* and trailing whitespace}; with any other input it sets an error status,
\* issues no request and leaves the alert list and both inputs as they were.
\* No other step issues a registration request.
C9_RegistrationOnlyForNonBlankInput ==
  [][LET Outcome(kind, input) ==
           IF \E j \in 1..Len(input) : input[j] # " "
           THEN /\ Len(regRequests') = Len(regRequests) + 1
                /\ SubSeq(regRequests', 1, Len(regRequests)) = regRequests
                /\ LET r == regRequests'[Len(regRequests')]
                       b == r.body[kind]
                   IN  /\ r.url = "/api/routes/monitoring/register/" \o kind
                       /\ DOMAIN r.body = {"user_id", kind}
                       /\ r.body["user_id"] = "demo_user"
                       /\ b # <<>> /\ b[1] # " " /\ b[Len(b)] # " "
                       /\ \E i \in 1..Len(input) :
                            /\ b = SubSeq(input, i, i + Len(b) - 1)
                            /\ \A j \in 1..Len(input) :
                                 (j < i \/ j >= i + Len(b)) => input[j] = " "
           ELSE /\ registrationStatus'.type = "error"
                /\ registrationStatus'.message # ""
                /\ regRequests' = regRequests
                /\ alerts' = alerts
                /\ addressInput' = addressInput
                /\ protocolInput' = protocolInput
     IN  /\ handleAddressRegistration => Outcome("address", addressInput)
         /\ handleProtocolRegistration => Outcome("protocol", protocolInput)
         /\ Len(regRequests') > Len(regRequests) =>
              handleAddressRegistration \/ handleProtocolRegistration]_vars

\* a padded address is in flight trimmed, and a whitespace-only protocol name
\* was refused
C9_Witness ==
  /\ addressInput = <<" ", "a">>
  /\ Len(regRequests) = 1
  /\ regRequests[1].body = [user_id |-> "demo_user", address |-> <<"a">>]
  /\ protocolInput = <<" ">>
  /\ registrationStatus = [message |-> "Please enter a valid protocol name", type |-> "error"]
  /\ alerts = <<>>

\* ------------------------------------------------- claims: request forms
FormScreens == {"contract-analysis", "activity-monitoring", "risk-assessment", "chat"}

loadingOf(screen) ==
  CASE screen = "contract-analysis" -> ca.loading
    [] screen = "activity-monitoring" -> cm.loading
    [] screen = "risk-assessment" -> ra.loading
    [] OTHER -> chat.isLoading

\* C7: every backend request of the contract-analysis screen is a POST to
\* /api/routes/contracts/analyze with a body of contract_code and
\* contract_name, and the fields displayed from the response are risk_score,
\* vulnerabilities, gas_optimization_suggestions and overall_assessment.
C7_AnalyzeRequestShape ==
  /\ \A r \in formRequests :
       (r.screen = "contract-analysis" /\ r.kind = "POST") =>
         /\ r.url = "/api/routes/contracts/analyze"
         /\ DOMAIN r.body = {"contract_code", "contract_name"}
  /\ ca.analysis # <<>> =>
       displayedFields = {"risk_score", "vulnerabilities",
                          "gas_optimization_suggestions", "overall_assessment"}

\* C6 as stated: on each of the four form screens at most one request of the
\* screen is in flight at any time, whichever instance of the screen sent it.
C6_AtMostOneRequestPerScreen ==
  \A s \in FormScreens : pendingOf(s, "POST") + orphans[<<s, "POST">>] <= 1

\* C6, amended: the submit action is disabled while the loading flag is set,
\* so the instance of a form that is on screen has at most one request of its
\* own awaited, and has one exactly while its loading flag is set; a request
\* sent before the screen was left is not cancelled and may still be in flight
\* beside it.
C6_AtMostOneRequestPerInstance ==
  \A s \in FormScreens :
    /\ pendingOf(s, "POST") + pendingOf(s, "delay") <= 1
    /\ loadingOf(s) <=> pendingOf(s, "POST") + pendingOf(s, "delay") = 1

\* the form was submitted, left, opened again and submitted again
C6_Witness ==
  /\ ca.mounted /\ ca.loading
  /\ pendingOf("contract-analysis", "POST") = 1
  /\ orphans[<<"contract-analysis", "POST">>] = 1

InFlight ==
  Cardinality({r \in formRequests : r.kind = "POST"}) + Len(regRequests)
    + Cardinality(tgRequests)

\* a click or form submission that may issue a request
Submit ==
  \/ handleAnalyze \/ handleMonitor \/ RA_handleSubmit \/ Chat_handleSubmit
  \/ handleAddressRegistration \/ handleProtocolRegistration
  \/ handleSubscribe \/ handleUnsubscribe
  \/ handleMonitorProtocol \/ handleMonitorAddress

\* the continuation of a request after it failed
Failure ==
  \/ \E r \in formRequests :
       /\ r.kind = "POST"
       /\ \/ analyzeDone(r, "fail", <<>>)
          \/ \E message \in MonitorErrors : monitorDone(r, "fail", message)
          \/ \E level \in RiskLevels : assessDone(r, "fail", [overall_risk_level |-> level])
          \/ sendMessageDone(r, "fail", <<>>)
  \/ \E k \in 1..Len(regRequests) : registrationDone(k, "fail")
  \/ \E r \in tgRequests :
       \/ subscribeDone(r, "fail") \/ unsubscribeDone(r, "fail")
       \/ monitorProtocolDone(r, "fail") \/ monitorAddressDone(r, "fail")

\* C11: no handler re-issues a request because it failed.  The step that
\* handles a failure ends with one request fewer in flight and none new, the
\* number of requests in flight grows only in a submit, and a submit adds at
\* most one request.
C11_NoRetry ==
  [][ /\ Failure =>
           /\ InFlight' = InFlight - 1
           /\ formRequests' \subseteq formRequests
           /\ tgRequests' \subseteq tgRequests
           /\ Len(regRequests') < Len(regRequests) \/ regRequests' = regRequests
      /\ InFlight' > InFlight => Submit /\ InFlight' = InFlight + 1
    ]_vars

\* a contract monitoring request has failed and nothing is in flight
C11_Witness ==
  /\ cm.mounted /\ cm.error \in MonitorErrors /\ ~cm.loading
  /\ InFlight = 0

\* ------------------------------------------------- claims: page switches
\* every screen opened, used and left in turn: the Telegram panel with all of
\* its handlers, the other screens with one input, their submit and its outcomes
NextPages ==
  \/ NextTelegram
  \/ MonMount
  \/ MonUnmount
  \/ \E k \in 1..Len(alertRequests) : alertsDone(k, "fail", <<>>)
  \/ setAddressInput(<<"a">>)
  \/ handleAddressRegistration
  \/ \E k \in 1..Len(regRequests), outcome \in Outcomes : registrationDone(k, outcome)
  \/ CAMount
  \/ CAUnmount
  \/ setContractCode("custom code")
  \/ handleAnalyze
  \/ \E r \in formRequests, outcome \in Outcomes :
       analyzeDone(r, outcome, [securityScore |-> 60])
  \/ CMMount
  \/ CMUnmount
  \/ setContractAddress("0xabc")
  \/ handleMonitor
  \/ \E r \in formRequests : monitorDone(r, "ok", <<"transfer">>)
  \/ \E r \in formRequests : monitorDone(r, "fail", "Monitoring failed")
  \/ RAMount
  \/ RAUnmount
  \/ setTargetId(<<"a">>)
  \/ RA_handleSubmit
  \/ \E r \in formRequests, outcome \in Outcomes :
       assessDone(r, outcome, [target_type |-> r.body["target_type"][1],
                               target_id |-> r.body["target_id"],
                               overall_risk_level |-> "high"])
  \/ ChatMount
  \/ ChatUnmount
  \/ setInputText(<<"a">>)
  \/ Chat_handleSubmit
  \/ \E r \in formRequests, outcome \in Outcomes : sendMessageDone(r, outcome, <<"answer">>)
  \/ \E k \in OrphanKinds : orphanDone(k)

SpecPages == Init /\ [][NextPages]_vars

\* the screens that are mounted
Mounted ==
  {x \in {"telegram-bot", "blockchain-monitoring", "contract-analysis",
          "activity-monitoring", "risk-assessment", "chat"} :
     CASE x = "telegram-bot" -> tgMounted
       [] x = "blockchain-monitoring" -> monMounted
       [] x = "contract-analysis" -> ca.mounted
       [] x = "activity-monitoring" -> cm.mounted
       [] x = "risk-assessment" -> ra.mounted
       [] OTHER -> chat.mounted}

\* the useState values of MonitoringDashboard and of TelegramBot, spelled out
MonStateInitial ==
  /\ alerts = <<>> /\ monLoading /\ monError = "none"
  /\ filter = [type |-> "", severity |-> ""]
  /\ addressInput = <<>> /\ protocolInput = <<>>
  /\ registrationStatus = [message |-> "", type |-> ""]

TgInputsInitial ==
  protocol = "" /\ address = "" /\ ~loading /\ statusMessage = NoStatus

TgPersistedInitial ==
  /\ chatId = <<>> /\ ~isConnected /\ ~isSubscribed
  /\ monitoredProtocols = <<>> /\ monitoredAddresses = <<>>

FormSettle ==
  \E r \in formRequests :
    \/ \E outcome \in Outcomes : analyzeDone(r, outcome, [securityScore |-> 60])
    \/ \E data \in {<<>>, <<"transfer">>} : monitorDone(r, "ok", data)
    \/ \E message \in MonitorErrors : monitorDone(r, "fail", message)
    \/ \E level \in RiskLevels :
         \/ assessDone(r, "ok", [target_type |-> r.body["target_type"][1],
                                 target_id |-> r.body["target_id"],
                                 overall_risk_level |-> level])
         \/ assessDone(r, "fail", [overall_risk_level |-> level])
    \/ sendMessageDone(r, "ok", <<"answer">>)
    \/ sendMessageDone(r, "fail", <<>>)

\* a pending timeout of the Telegram panel fires, or a pending request of it
\* resolves or rejects
TgSettle ==
  \/ \E t \in tgTimers : connectTimeout(t) \/ disconnectTimeout(t)
  \/ \E r \in tgRequests, outcome \in Outcomes :
       \/ subscribeDone(r, outcome) \/ unsubscribeDone(r, outcome)
       \/ monitorProtocolDone(r, outcome) \/ monitorAddressDone(r, outcome)

\* every screen, with each request eventually resolving or rejecting
LiveScreens == SpecScreens /\ WF_vars(FormSettle) /\ WF_vars(TgSettle)

\* C13: every handler that sets its screen's loading flag eventually clears
\* it, on success and on failure alike, provided the request eventually
\* resolves or rejects.
C13_LoadingEventuallyCleared ==
  /\ ca.loading ~> ~ca.loading
  /\ cm.loading ~> ~cm.loading
  /\ ra.loading ~> ~ra.loading
  /\ chat.isLoading ~> ~chat.isLoading
  /\ loading ~> ~loading

\* a risk assessment has failed in a build that shows the error, and loading is clear
C13_Witness ==
  /\ ra.mounted /\ ~ra.loading
  /\ ra.error = "Failed to perform risk assessment"
  /\ formRequests = {}

\* ----------------------------------------------------------- claims: chat
\* text made of whitespace only
Blank(text) == \A i \in 1..Len(text) : text[i] = " "

\* text without its leading and trailing whitespace
Trimmed(text, result) ==
  /\ result # <<>> => result[1] # " " /\ result[Len(result)] # " "
  /\ \E i, j \in 0..Len(text) :
       /\ i + Len(result) + j = Len(text)
       /\ Blank(SubSeq(text, 1, i))
       /\ result = SubSeq(text, i + 1, i + Len(result))
       /\ Blank(SubSeq(text, i + Len(result) + 1, Len(text)))

Apology == <<"Sorry, there was an error processing your request. Please try again.">>

\* C14: a chat submit with blank input, or while a reply is pending, changes
\* nothing; otherwise it appends the trimmed text as a user message and issues
\* one POST to /api/routes/chat/ with body {message}; the reply then appends
\* exactly one bot message, the response text on success and the fixed apology
\* on failure.
C14_ChatSubmit ==
  /\ [](/\ \A i \in 1..Len(chat.messages) :
             chat.messages[i].type = IF i % 2 = 1 THEN "bot" ELSE "user"
        /\ chat.isLoading <=> Len(chat.messages) % 2 = 0
        /\ chat.isLoading <=> pendingOf("chat", "POST") = 1)
  /\ [][
      /\ Chat_handleSubmit =>
           IF Blank(chat.inputText) \/ chat.isLoading
           THEN UNCHANGED <<chat, formRequests>>
           ELSE /\ Len(chat'.messages) = Len(chat.messages) + 1
                /\ SubSeq(chat'.messages, 1, Len(chat.messages)) = chat.messages
                /\ chat'.messages[Len(chat'.messages)].type = "user"
                /\ Trimmed(chat.inputText, chat'.messages[Len(chat'.messages)].text)
                /\ \E r \in formRequests' :
                     /\ formRequests' = formRequests \cup {r} /\ r \notin formRequests
                     /\ r.kind = "POST" /\ r.url = "/api/routes/chat/"
                     /\ DOMAIN r.body = {"message"}
                     /\ r.body.message = chat'.messages[Len(chat'.messages)].text
      /\ \A r \in formRequests, outcome \in Outcomes :
           sendMessageDone(r, outcome, IF outcome = "ok" THEN <<"answer">> ELSE <<>>) =>
             /\ chat'.messages = Append(chat.messages,
                  [text |-> IF outcome = "ok" THEN <<"answer">> ELSE Apology,
                   type |-> "bot"])
             /\ formRequests' = formRequests \ {r}
    ]_vars

\* a message was sent and answered with the apology
C14_Witness ==
  /\ chat.mounted /\ ~chat.isLoading
  /\ Len(chat.messages) = 3
  /\ chat.messages[2] = [text |-> <<"a">>, type |-> "user"]
  /\ chat.messages[3] = [text |-> Apology, type |-> "bot"]

\* ------------------------------------------------ claims: risk assessment
\* C15: a risk-assessment submit whose target id is empty or whitespace-only
\* sets an error, issues no request and leaves loading and result unchanged;
\* otherwise it POSTs to /api/routes/risk-assessment/assess a body with
\* target_type, the trimmed target_id, and additional_context, which is
\* omitted exactly when the context field is blank.
C15_AssessSubmit ==
  [][ RA_handleSubmit =>
        IF Blank(ra.targetId)
        THEN /\ ra'.error \notin {"null", ""}
             /\ formRequests' = formRequests
             /\ ra'.loading = ra.loading /\ ra'.result = ra.result
        ELSE \E r \in formRequests' :
               /\ formRequests' = formRequests \cup {r} /\ r \notin formRequests
               /\ r.kind = "POST" /\ r.url = "/api/routes/risk-assessment/assess"
               /\ DOMAIN r.body =
                    {"target_type", "target_id"} \cup
                    (IF Blank(ra.additionalContext) THEN {} ELSE {"additional_context"})
               /\ r.body["target_type"] = <<ra.targetType>>
               /\ Trimmed(ra.targetId, r.body["target_id"])
               /\ ~Blank(ra.additionalContext) =>
                    Trimmed(ra.additionalContext, r.body["additional_context"])
    ]_vars

\* a target was submitted with a context of one space: no additional_context
C15_Witness ==
  /\ ra.mounted /\ ra.loading /\ ra.additionalContext = <<" ">>
  /\ \E r \in formRequests :
       /\ r.screen = "risk-assessment"
       /\ DOMAIN r.body = {"target_type", "target_id"}

\* ------------------------------------------------- claims: alert filters
\* C16: once every alert request in flight has completed, the displayed alert
\* list is the result of the request made with the current filter, whatever
\* the order of the responses.  Stated for the responses the screen can tell
\* apart: a failed request's result is the mock alerts matching its filter.
C16_AlertsMatchCurrentFilter ==
  (monMounted /\ alertRequests = <<>> /\ monError # "none") =>
    \A i \in 1..Len(alerts) :
      /\ filter.type \in {"", alerts[i].type}
      /\ filter.severity \in {"", alerts[i].severity}

\* ----------------------------------------- claims: Telegram monitored lists
\* C17: while the panel is open, an entry that is absent from a monitored
\* list (in state or in local storage) becomes present only when a Monitor
\* request for that same entry completes; the completion of a request for
\* another entry does not bring a removed entry back.
C17_RemovedStaysAbsent ==
  [][ (tgMounted /\ tgMounted') =>
        /\ \A p \in SAMPLE_PROTOCOLS :
             (\/ ~includes(monitoredProtocols, p) /\ includes(monitoredProtocols', p)
              \/ /\ ~includes(restoredProtocols(lsTg), p)
                 /\ includes(restoredProtocols(lsTg'), p)) =>
               \E r \in tgRequests \ tgRequests' :
                 r.op = "monitorProtocol" /\ r.item = p
        /\ \A a \in SAMPLE_ADDRESSES :
             (\/ ~includes(monitoredAddresses, a) /\ includes(monitoredAddresses', a)
              \/ /\ ~includes(restoredAddresses(lsTg), a)
                 /\ includes(restoredAddresses(lsTg'), a)) =>
               \E r \in tgRequests \ tgRequests' :
                 r.op = "monitorAddress" /\ r.item = a
    ]_vars

\* ---------------------------------------------- claims: monitoring loading
\* C18: on the monitoring screen the loading flag is true whenever an alert
\* request is in flight.
C18_LoadingWhileRequestInFlight ==
  (monMounted /\ alertRequests # <<>>) => monLoading

\* -------------------------------------------------- claims: mock fallback
\* C19: when an alert request fails, the alert list becomes exactly the
\* sub-list of the three hardcoded mock alerts whose type equals the type
\* filter (when one is set) and whose severity equals the severity filter
\* (when one is set), in their original order, and the demonstration banner is
\* set; the filter is the one the request was made with.
C19_MockFallbackFiltered ==
  [][ \A k \in 1..Len(alertRequests) :
        alertsDone(k, "fail", <<>>) =>
          LET f == alertRequests[k].filter
              keep(a) == /\ f.type = "" \/ a.type = f.type
                         /\ f.severity = "" \/ a.severity = f.severity
              pick(a) == IF keep(a) THEN <<a>> ELSE <<>>
          IN  /\ alerts' = pick([id |-> "mock-1", type |-> "whale_transaction", severity |-> "medium"])
                        \o pick([id |-> "mock-2", type |-> "security_news", severity |-> "high"])
                        \o pick([id |-> "mock-3", type |-> "unusual_activity", severity |-> "low"])
              /\ monError' = "This is a demonstration with mock data. The monitoring API is still in development."
    ]_vars

\* a request made with both filters set has failed: one mock alert is shown
C19_Witness ==
  /\ monMounted /\ alertRequests = <<>>
  /\ filter = [type |-> "security_news", severity |-> "high"]
  /\ monError # "none"
  /\ Len(alerts) = 1 /\ alerts[1].id = "mock-2"

\* ---------------------------------------------- claims: status messages
\* C20: every registration status message shown on the monitoring screen,
\* whether a success, a request failure or a blank-input validation error, is
\* cleared within 3 seconds of being shown: while one is shown, a timeout
\* that clears it is pending and due within 3000 ms.
C20_StatusClearedWithin3s ==
  (monMounted /\ registrationStatus.message # "") =>
    \E x \in regTimers : x <= 3000

\* C21: a registration status message stays visible for the full 3 seconds
\* after it is shown unless a newer message replaces it: a clearing timeout
\* that fires while a message is shown is the one started last, so no timeout
\* started by a later registration is still pending.
C21_TimeoutClearsOwnMessage ==
  [][ (clearStatusTimeout /\ registrationStatus.message # "") =>
        \A x \in regTimers : x = 0
    ]_vars

\* ------------------------------------------------ claims: Telegram chat id
\* C22: when a Telegram connect completes, the chat id stored under
\* telegram_chat_id equals the chatId held in component state, the one shown
\* as connected and sent in later requests, even when the chat-id field was
\* edited during the connect delay.
C22_StoredChatIdIsDisplayedChatId ==
  [][ \A t \in tgTimers :
        connectTimeout(t) =>
          /\ isConnected'
          /\ lsTg'["telegram_chat_id"] = {chatId'}
    ]_vars

\* ---------------------------------------------- claims: chat message list
\* C23: the chat message list is append-only and never holds two consecutive
\* messages of the same type: it starts with the bot greeting, and every user
\* message is followed by exactly one bot message before the next user
\* message is appended, for every sequence of submits.
C23_ChatMessagesAlternate ==
  /\ [](/\ chat.messages[1] = [text |-> <<"greeting">>, type |-> "bot"]
        /\ \A i \in 1..(Len(chat.messages) - 1) :
             {chat.messages[i].type, chat.messages[i + 1].type} = {"user", "bot"})
  /\ [][ (chat.mounted /\ chat'.mounted) =>
           /\ Len(chat'.messages) \in {Len(chat.messages), Len(chat.messages) + 1}
           /\ SubSeq(chat'.messages, 1, Len(chat.messages)) = chat.messages
       ]_vars

\* two questions have been answered, the second one by the apology
C23_Witness ==
  /\ chat.mounted /\ ~chat.isLoading
  /\ Len(chat.messages) = 5
  /\ chat.messages[2].type = "user" /\ chat.messages[4].type = "user"
  /\ chat.messages[3].text = <<"answer">>
  /\ chat.messages[5].text # <<"answer">>

\* ---------------------------------------- claims: Telegram subscription
\* C24: in every reachable state of the Telegram panel isSubscribed implies
\* isConnected, and telegram_is_subscribed in local storage implies
\* telegram_is_connected, for every interleaving of connect, disconnect,
\* subscribe and unsubscribe and their delayed completions.
C24_SubscribedImpliesConnected ==
  /\ isSubscribed => isConnected
  /\ lsTg["telegram_is_subscribed"] = {"true"} => lsTg["telegram_is_connected"] = {"true"}

\* ------------------------------------- claims: monitored lists, duplicates
NoDuplicates(list) == \A i, j \in DOMAIN list : list[i] = list[j] => i = j

\* C25: starting from empty monitored lists, after any sequence of Monitor
\* and remove operations the monitored-protocol list and the
\* monitored-address list contain no entry twice, whether the monitor
\* requests succeed or fall back to demo mode; the same holds of the lists
\* kept in local storage.
C25_NoDuplicateEntries ==
  /\ NoDuplicates(monitoredProtocols)
  /\ NoDuplicates(monitoredAddresses)
  /\ NoDuplicates(restoredProtocols(lsTg))
  /\ NoDuplicates(restoredAddresses(lsTg))

\* both protocols and an address are monitored, the last one in demo mode
C25_Witness ==
  /\ tgMounted /\ tgRequests = {}
  /\ Len(monitoredProtocols) = 2
  /\ Len(monitoredAddresses) = 1
  /\ statusMessage.message = "(Demo mode)"

\* ------------------------------------------- claims: sample contracts
\* C26: when Analyze is clicked while the code and address fields equal those
\* of one of the sample contracts, no HTTP request is issued and the analysis
\* shown afterwards is the sample result with the same index as that sample
\* contract; in every other case with non-empty code exactly one request is
\* issued.
C26_SampleAnalysisWithoutRequest ==
  /\ [][ handleAnalyze =>
           LET matches == {i \in 0..2 :
                             /\ sampleContracts[i + 1].code = ca.contractCode
                             /\ sampleContracts[i + 1].address = ca.contractAddress}
               issued == formRequests' \ formRequests
               posts == {r \in issued : r.kind = "POST"}
           IN  CASE ca.contractCode = "" -> issued = {}
                 [] ca.contractCode # "" /\ matches # {} ->
                      /\ posts = {}
                      /\ \E r \in issued :
                           /\ issued = {r}
                           /\ r.kind = "delay" /\ r.body.sample \in matches
                 [] OTHER ->
                      /\ issued = posts
                      /\ Cardinality(posts) = 1
       ]_vars
  /\ [][ \A r \in formRequests, outcome \in Outcomes :
           (r.kind = "delay" /\ analyzeDone(r, outcome, <<>>)) =>
             ca'.analysis = << [securityScore |->
                                  CASE r.body.sample = 0 -> 85
                                    [] r.body.sample = 1 -> 40
                                    [] OTHER -> 75] >>
       ]_vars

\* the second sample contract was loaded and analysed: its result is shown
\* and nothing was sent
C26_Witness ==
  /\ ca.mounted /\ ~ca.loading
  /\ ca.contractName = "VulnerableBank"
  /\ ca.contractCode = sampleContracts[2].code
  /\ ca.analysis = <<[securityScore |-> 40]>>
  /\ formRequests = {}

\* ------------------------------------------------ claims: page switch
RecognisedPages ==
  {"dashboard", "contract-analysis", "activity-monitoring",
   "blockchain-monitoring", "risk-assessment", "chat"}

\* C27: for every value of currentPage, including any string restored from
\* local storage, the shell renders exactly one screen, and it renders the
\* dashboard home for every value that is not one of the recognised page
\* names.
C27_OneScreenForEveryPage ==
  showDashboard =>
    /\ Rendered \in {"DashboardHome", "ContractAnalysis", "ContractMonitoring",
                     "MonitoringDashboard", "RiskAssessment", "Chat"}
    /\ currentPage \notin RecognisedPages => Rendered = "DashboardHome"

\* a page name of another build was restored from local storage
C27_Witness ==
  /\ showDashboard
  /\ ev = "App.reload"
  /\ currentPage = "settings"
  /\ Rendered = "DashboardHome"

\* ---------------------------------------------------- claims: alert card
\* C28: an alert card shows, when collapsed, the first 100 characters of the
\* description followed by '...' if the description is longer than 100
\* characters and the whole description otherwise; the Show more / Show less
\* toggle exists only for descriptions longer than 100 characters, so a card
\* with a shorter description never enters the expanded state.
C28_CollapsedTextAndToggle ==
  /\ [](card.mounted =>
          LET d == card.description
              long == Len(d) > 100
          IN  /\ ~card.expanded =>
                   /\ Len(shownText(card)) = IF long THEN 103 ELSE Len(d)
                   /\ \A i \in 1..Len(d) : i <= 100 => shownText(card)[i] = d[i]
                   /\ long => \A i \in 101..103 : shownText(card)[i] = "."
              /\ hasToggle(card) <=> long)
  /\ [][ (card'.mounted /\ ~card.expanded /\ card'.expanded) =>
           /\ Len(card.description) > 100
           /\ card'.description = card.description
       ]_vars

\* a description one character over the limit is shown collapsed: its first
\* 100 characters, the dots, and the toggle
C28_Witness ==
  /\ card.mounted /\ ~card.expanded
  /\ Len(card.description) = 101
  /\ Len(shownText(card)) = 103
  /\ hasToggle(card)

=============================================================================
